---- MODULE Spec2Model ----
(***************************************************************************)
(* Opening-hours evaluation of the restaurant search route                 *)
(* (src/src/app/api/restaurants/search/route.ts, getRealTimeStatus).       *)
(*                                                                         *)
(* Representation of JavaScript values:                                    *)
(*   - a string is the sequence of its characters, each character a        *)
(*     one-character TLA+ string; the en dash U+2013 is written "ndash"    *)
(*     and the em dash U+2014 "mdash";                                     *)
(*   - a value that may be undefined is a sequence of length at most one:  *)
(*     <<>> is undefined, <<v>> is the value v;                            *)
(*   - a Date is the record of what the code reads from it: getDay(),      *)
(*     getHours(), getMinutes().                                           *)
(***************************************************************************)
EXTENDS Integers, Sequences, FiniteSets, TLC

VARIABLES openingHours, googleOpenNow, currentTime, result, thrown, wallClock, again, locals,
          customOpenCheck,
          places, restaurantPromises, availableRestaurants, rankedRestaurants

\* the variables of the POST handler
postVars == <<places, restaurantPromises, availableRestaurants, rankedRestaurants>>

vars == <<openingHours, googleOpenNow, currentTime, result, thrown, wallClock, again, locals,
          customOpenCheck,
          places, restaurantPromises, availableRestaurants, rankedRestaurants>>

Undefined == <<>>
Some(v) == <<v>>
JsTrue == <<TRUE>>
JsFalse == <<FALSE>>

Min(S) == CHOOSE x \in S : \A y \in S : x <= y

----------------------------------------------------------------------------
(* Characters and the string built-ins the code uses.                      *)

UpperCase == <<"A","B","C","D","E","F","G","H","I","J","K","L","M",
               "N","O","P","Q","R","S","T","U","V","W","X","Y","Z">>
LowerCase == <<"a","b","c","d","e","f","g","h","i","j","k","l","m",
               "n","o","p","q","r","s","t","u","v","w","x","y","z">>
Digits == <<"0","1","2","3","4","5","6","7","8","9">>
Others == <<" ", ":", ",", "-", "ndash", "mdash", "(", ")", "'", "">>

Chars == {UpperCase[i] : i \in 1..26} \cup {LowerCase[i] : i \in 1..26}
         \cup {Digits[i] : i \in 1..10} \cup {Others[i] : i \in 1..Len(Others)}

LowerOf == [c \in Chars |->
              IF \E i \in 1..26 : UpperCase[i] = c
              THEN LowerCase[CHOOSE i \in 1..26 : UpperCase[i] = c] ELSE c]
UpperOf == [c \in Chars |->
              IF \E i \in 1..26 : LowerCase[i] = c
              THEN UpperCase[CHOOSE i \in 1..26 : LowerCase[i] = c] ELSE c]
DigitOf == [c \in {Digits[i] : i \in 1..10} |-> (CHOOSE i \in 1..10 : Digits[i] = c) - 1]

\* (mutant) the text keeps the case it has
toUpperCase_identity(s) == s

\* String.prototype.toLowerCase / toUpperCase
toLowerCase(s) == [i \in 1..Len(s) |-> LowerOf[s[i]]]
toUpperCase(s) == [i \in 1..Len(s) |-> UpperOf[s[i]]]

\* the 1-based positions at which sub occurs in s
Occurrences(s, sub) ==
  {i \in 1..(Len(s) - Len(sub) + 1) : SubSeq(s, i, i + Len(sub) - 1) = sub}

\* String.prototype.includes
includes(s, sub) == Occurrences(s, sub) # {}

\* parseInt of a string of decimal digits
RECURSIVE parseInt(_)
parseInt(ds) ==
  IF ds = <<>> THEN 0
  ELSE 10 * parseInt(SubSeq(ds, 1, Len(ds) - 1)) + DigitOf[ds[Len(ds)]]

\* String.prototype.padStart(2, '0')
padStart(s) == IF Len(s) >= 2 THEN s ELSE [i \in 1..(2 - Len(s)) |-> "0"] \o s

\* s.split(': ')[1]: the text between the first and the second ": "
splitSecond(s) ==
  LET seps == Occurrences(s, <<":", " ">>)
  IN  IF seps = {} THEN Undefined
      ELSE LET from  == Min(seps) + 2
               later == {p \in seps : p >= from}
               to    == IF later = {} THEN Len(s) ELSE Min(later) - 1
           IN  Some(SubSeq(s, from, to))

\* s.split(': ')[1] || s   (undefined and '' are falsy)
hoursText(s) ==
  LET part == splitSecond(s)
  IN  IF part = Undefined \/ part[1] = <<>> THEN s ELSE part[1]

----------------------------------------------------------------------------
(* The time-range pattern                                                  *)
(*  /(\d{1,2})(?::(\d{2}))?\s*(am|pm)\s*[-(en dash)(em dash)]\s*           *)
(*   (\d{1,2})(?::(\d{2}))?\s*(am|pm)/i                                    *)
(* Each quantifier is greedy and what follows it can never start with a    *)
(* character the quantifier accepts, so matching without backtracking      *)
(* finds exactly the matches of the pattern.                               *)

At(s, i) == IF i >= 1 /\ i <= Len(s) THEN s[i] ELSE ""
IsDigit(c) == c \in {Digits[i] : i \in 1..10}
IsSpace(c) == c = " "

RECURSIVE skipSpaces(_, _)
skipSpaces(s, i) == IF IsSpace(At(s, i)) THEN skipSpaces(s, i + 1) ELSE i

\* (am|pm) at position p, after the hour and the minutes already matched
matchPeriod(s, hour, min, p) ==
  IF LowerOf[At(s, p)] \in {"a", "p"} /\ LowerOf[At(s, p + 1)] = "m"
  THEN Some([hour |-> hour, min |-> min, period |-> SubSeq(s, p, p + 1), end |-> p + 2])
  ELSE Undefined

\* (?::(\d{2}))?\s*(am|pm) at position hEnd, after the hour already matched
matchMinutes(s, hour, hEnd) ==
  IF At(s, hEnd) = ":" /\ IsDigit(At(s, hEnd + 1)) /\ IsDigit(At(s, hEnd + 2))
  THEN matchPeriod(s, hour, Some(SubSeq(s, hEnd + 1, hEnd + 2)), skipSpaces(s, hEnd + 3))
  ELSE matchPeriod(s, hour, Undefined, skipSpaces(s, hEnd))

\* (\d{1,2})(?::(\d{2}))?\s*(am|pm) at position i
matchTime(s, i) ==
  IF ~IsDigit(At(s, i)) THEN Undefined
  ELSE IF IsDigit(At(s, i + 1)) THEN matchMinutes(s, SubSeq(s, i, i + 1), i + 2)
  ELSE matchMinutes(s, SubSeq(s, i, i), i + 1)

\* the six groups of a match, from the open time and what was found after the dash
matchGroups(open, close) ==
  IF close = Undefined THEN Undefined
  ELSE Some([openHour    |-> open.hour,
             openMin     |-> open.min,
             openPeriod  |-> open.period,
             closeHour   |-> close[1].hour,
             closeMin    |-> close[1].min,
             closePeriod |-> close[1].period])

\* [(en dash)\-(em dash)]\s*(\d{1,2})(?::(\d{2}))?\s*(am|pm) at position d
matchDash(s, open, d) ==
  IF At(s, d) \in {"ndash", "-", "mdash"}
  THEN matchGroups(open, matchTime(s, skipSpaces(s, d + 1)))
  ELSE Undefined

\* what follows the open time: \s*, the dash, \s*, the close time
matchClose(s, open) ==
  IF open = Undefined THEN Undefined
  ELSE matchDash(s, open[1], skipSpaces(s, open[1].end))

\* the whole pattern at position i
matchAt(s, i) == matchClose(s, matchTime(s, i))

\* (mutant) the match at the rightmost of the positions
firstMatch_last(s, starts) ==
  IF starts = {} THEN Undefined ELSE matchAt(s, CHOOSE i \in starts : \A j \in starts : j <= i)

\* the match at the leftmost of the positions where the pattern matches
firstMatch(s, starts) == IF starts = {} THEN Undefined ELSE matchAt(s, Min(starts))

\* String.prototype.match with the pattern: the leftmost match, or null
timeMatch(s) == firstMatch(s, {i \in 1..Len(s) : matchAt(s, i) # Undefined})

----------------------------------------------------------------------------
(* getRealTimeStatus                                                       *)

dayNames ==
  << <<"m","o","n","d","a","y">>, <<"t","u","e","s","d","a","y">>,
     <<"w","e","d","n","e","s","d","a","y">>, <<"t","h","u","r","s","d","a","y">>,
     <<"f","r","i","d","a","y">>, <<"s","a","t","u","r","d","a","y">>,
     <<"s","u","n","d","a","y">> >>
dayDisplayNames ==
  << <<"M","o","n","d","a","y">>, <<"T","u","e","s","d","a","y">>,
     <<"W","e","d","n","e","s","d","a","y">>, <<"T","h","u","r","s","d","a","y">>,
     <<"F","r","i","d","a","y">>, <<"S","a","t","u","r","d","a","y">>,
     <<"S","u","n","d","a","y">> >>

closedWord == <<"c","l","o","s","e","d">>

\* (mutant) Sunday is its own yesterday
yesterdayDayIndex_sunday(currentDay) == IF currentDay <= 1 THEN 6 ELSE currentDay - 2

\* currentDay is getDay(): 0 = Sunday .. 6 = Saturday; the indices are 0-based
yesterdayDayIndex(currentDay) ==
  IF currentDay = 0 THEN 5 ELSE IF currentDay = 1 THEN 6 ELSE currentDay - 2
googleDayIndex(currentDay) == IF currentDay = 0 THEN 6 ELSE currentDay - 1

\* (mutant) find returns the last entry that matches
firstOf_last(hoursList, hits) ==
  IF hits = {} THEN Undefined ELSE Some(hoursList[CHOOSE i \in hits : \A j \in hits : j <= i])

\* (mutant) find returns the head of the array when any entry matches
firstOf_head(hoursList, hits) == IF hits = {} THEN Undefined ELSE Some(hoursList[1])

\* openingHours.find(hours => hours.toLowerCase().includes(name))
firstOf(hoursList, hits) == IF hits = {} THEN Undefined ELSE Some(hoursList[Min(hits)])
find(hoursList, name) ==
  firstOf(hoursList, {i \in 1..Len(hoursList) : includes(toLowerCase(hoursList[i]), name)})

\* (mutant) the text is searched without toLowerCase()
isClosed_caseSensitive(hours) == includes(hours, closedWord)

\* hours.toLowerCase().includes('closed')
isClosed(hours) == includes(toLowerCase(hours), closedWord)

\* min || '0'
orZero(min) == IF min = Undefined THEN <<"0">> ELSE min[1]
\* min || '00'
orZeroZero(min) == IF min = Undefined THEN <<"0", "0">> ELSE min[1]

\* (mutant) 12 hours are added to every 'pm' time, noon included
yesterdayCloseTimeInMinutes_noNoon(m) ==
  IF toLowerCase(m.closePeriod) = <<"p","m">>
  THEN parseInt(m.closeHour) * 60 + parseInt(orZero(m.closeMin)) + 12 * 60
  ELSE IF parseInt(m.closeHour) = 12 THEN parseInt(orZero(m.closeMin))
  ELSE parseInt(m.closeHour) * 60 + parseInt(orZero(m.closeMin))

\* yesterday's close time in minutes since midnight
yesterdayCloseTimeInMinutes(m) ==
  LET base == parseInt(m.closeHour) * 60 + parseInt(orZero(m.closeMin))
      pm   == IF toLowerCase(m.closePeriod) = <<"p","m">> /\ parseInt(m.closeHour) # 12
              THEN base + 12 * 60 ELSE base
  IN  IF toLowerCase(m.closePeriod) = <<"a","m">> /\ parseInt(m.closeHour) = 12
      THEN parseInt(orZero(m.closeMin)) ELSE pm

\* today's open and close times in minutes since midnight
openTimeInMinutes(m) ==
  LET base == parseInt(m.openHour) * 60 + parseInt(orZero(m.openMin))
      pm   == IF toLowerCase(m.openPeriod) = <<"p","m">> /\ parseInt(m.openHour) # 12
              THEN base + 12 * 60 ELSE base
  IN  IF toLowerCase(m.openPeriod) = <<"a","m">> /\ parseInt(m.openHour) = 12
      THEN parseInt(orZero(m.openMin)) ELSE pm

closeTimeInMinutes(m) ==
  LET base == parseInt(m.closeHour) * 60 + parseInt(orZero(m.closeMin))
      pm   == IF toLowerCase(m.closePeriod) = <<"p","m">> /\ parseInt(m.closeHour) # 12
              THEN base + 12 * 60 ELSE base
  IN  IF toLowerCase(m.closePeriod) = <<"a","m">> /\ parseInt(m.closeHour) = 12
      THEN parseInt(orZero(m.closeMin)) ELSE pm

\* `${hour}:${(min || '00').padStart(2, '0')} ${period.toUpperCase()}`
yesterdayCloseTime12hr(m) ==
  m.closeHour \o <<":">> \o padStart(orZeroZero(m.closeMin)) \o <<" ">> \o toUpperCase(m.closePeriod)
openTime12hr(m) ==
  m.openHour \o <<":">> \o padStart(orZeroZero(m.openMin)) \o <<" ">> \o toUpperCase(m.openPeriod)
closeTime12hr(m) ==
  m.closeHour \o <<":">> \o padStart(orZeroZero(m.closeMin)) \o <<" ">> \o toUpperCase(m.closePeriod)

HoursNotAvailable ==
  <<"H","o","u","r","s"," ","n","o","t"," ","a","v","a","i","l","a","b","l","e">>
OpenUntil == <<"O","p","e","n"," ","u","n","t","i","l"," ">>
OvernightHoursOf == <<"'","s"," ","o","v","e","r","n","i","g","h","t"," ","h","o","u","r","s",")">>
TomorrowOvernight ==
  <<" ","t","o","m","o","r","r","o","w"," ","(","o","v","e","r","n","i","g","h","t"," ",
    "h","o","u","r","s",")">>
ClosedToday == <<"C","l","o","s","e","d"," ","t","o","d","a","y"," ","(">>
ClosedOpensAt == <<"C","l","o","s","e","d"," ","-"," ","O","p","e","n","s"," ","a","t"," ">>
ClosedOpens == <<"C","l","o","s","e","d"," ","-"," ","O","p","e","n","s"," ">>
Tomorrow == <<" ","t","o","m","o","r","r","o","w">>
CurrentlyOpen == <<"C","u","r","r","e","n","t","l","y"," ","o","p","e","n">>
CurrentlyClosed == <<"C","u","r","r","e","n","t","l","y"," ","c","l","o","s","e","d">>

\* (mutant) the comparison with yesterday's close time is turned around
stillInOvernightPeriod_reversed(now, close) == now >= close

\* if (currentTimeInMinutes <= closeTimeInMinutes)
stillInOvernightPeriod(now, close) == now <= close

\* The overnight-carryover check: the status it returns, or undefined when
\* control falls through to today's hours.
\* It is written in four layers, each receiving what the layers above it
\* have computed: the early-morning overnight test and the return value,
yesterdayOvernightStatus(yesterdayHours, yesterdayDisplayName, closePeriod, close, closesAt, now) ==
  IF /\ toLowerCase(closePeriod) = <<"a","m">>
     /\ close <= 12 * 60
     /\ stillInOvernightPeriod(now, close)
  THEN Some([isOpen |-> JsTrue,
             currentPeriod |->
               Some([day |-> yesterdayDisplayName,
                     hours |-> hoursText(yesterdayHours),
                     isOvernightPeriod |-> TRUE,
                     closesAt |-> Some(closesAt)]),
             message |-> OpenUntil \o closesAt \o <<" ", "(">>
                         \o yesterdayDisplayName \o OvernightHoursOf])
  ELSE Undefined

\* `if (timeMatch)`,
yesterdayMatchStatus(yesterdayHours, yesterdayDisplayName, tm, currentTimeInMinutes) ==
  IF tm # Undefined
  THEN yesterdayOvernightStatus(yesterdayHours, yesterdayDisplayName, tm[1].closePeriod,
                                yesterdayCloseTimeInMinutes(tm[1]),
                                yesterdayCloseTime12hr(tm[1]), currentTimeInMinutes)
  ELSE Undefined

\* `if (yesterdayHours && !yesterdayHours.toLowerCase().includes('closed'))`,
yesterdayHoursStatus(yesterdayHours, yesterdayDisplayName, currentTimeInMinutes) ==
  IF yesterdayHours # Undefined /\ ~isClosed(yesterdayHours[1])
  THEN yesterdayMatchStatus(yesterdayHours[1], yesterdayDisplayName,
                            timeMatch(yesterdayHours[1]), currentTimeInMinutes)
  ELSE Undefined

\* and the look-up of yesterday's entry.
yesterdayStatus(hoursList, currentDay, currentTimeInMinutes) ==
  yesterdayHoursStatus(find(hoursList, dayNames[yesterdayDayIndex(currentDay) + 1]),
                       dayDisplayNames[yesterdayDayIndex(currentDay) + 1],
                       currentTimeInMinutes)

\* (mutant) the close time itself is excluded
isCurrentlyOpenSameDay_exclusive(now, open, close) == now >= open /\ now < close

\* same-day hours: currentTimeInMinutes >= openTimeInMinutes && currentTimeInMinutes <= closeTimeInMinutes
isCurrentlyOpenSameDay(now, open, close) == now >= open /\ now <= close

\* (mutant) overnight hours are open only between the two times
isCurrentlyOpenOvernight_both(now, open, close) == now >= open /\ now <= close

\* overnight hours: currentTimeInMinutes >= openTimeInMinutes || currentTimeInMinutes <= closeTimeInMinutes
isCurrentlyOpenOvernight(now, open, close) == now >= open \/ now <= close

\* (mutant) currentPeriod never carries closesAt
todayPeriod_noClosesAt(todayHours, todayDisplayName, overnight, closesAt) ==
  Some([day |-> todayDisplayName,
        hours |-> hoursText(todayHours),
        isOvernightPeriod |-> overnight,
        closesAt |-> Undefined])

\* Today's hours: the status returned inside `if (todayHours)`, or undefined
\* when control falls through to the fallback.
\* It is written in layers, each receiving what the layers above it have
\* computed.  The currentPeriod of a status of today's hours:
todayPeriod(todayHours, todayDisplayName, overnight, closesAt) ==
  Some([day |-> todayDisplayName,
        hours |-> hoursText(todayHours),
        isOvernightPeriod |-> overnight,
        closesAt |-> closesAt])

\* `if (closeTimeInMinutes < openTimeInMinutes)`: overnight hours
todayOvernightStatus(todayHours, todayDisplayName, now, open, close, opensAt, closesAt) ==
  IF isCurrentlyOpenOvernight(now, open, close)
  THEN IF now >= open
       THEN [isOpen |-> JsTrue,
             currentPeriod |-> todayPeriod(todayHours, todayDisplayName, TRUE, Some(closesAt)),
             message |-> OpenUntil \o closesAt \o TomorrowOvernight]
       ELSE [isOpen |-> JsTrue,
             currentPeriod |-> todayPeriod(todayHours, todayDisplayName, TRUE, Some(closesAt)),
             message |-> OpenUntil \o closesAt \o <<" ", "(">>
                         \o todayDisplayName \o OvernightHoursOf]
  ELSE [isOpen |-> JsFalse,
        currentPeriod |-> todayPeriod(todayHours, todayDisplayName, TRUE, Undefined),
        message |-> ClosedOpensAt \o opensAt]

\* `else`: same-day hours, isCurrentlyOpen already computed
todaySameDayStatus(todayHours, todayDisplayName, now, open, opensAt, closesAt, isCurrentlyOpen) ==
  [isOpen |-> Some(isCurrentlyOpen),
   currentPeriod |->
     todayPeriod(todayHours, todayDisplayName, FALSE,
                 IF isCurrentlyOpen THEN Some(closesAt) ELSE Undefined),
   message |->
     IF isCurrentlyOpen THEN OpenUntil \o closesAt
     ELSE IF now < open THEN ClosedOpensAt \o opensAt
     ELSE ClosedOpens \o opensAt \o Tomorrow]

\* the branch on the two times of the range
todayRangeStatus(todayHours, todayDisplayName, now, open, close, opensAt, closesAt) ==
  IF close < open
  THEN todayOvernightStatus(todayHours, todayDisplayName, now, open, close, opensAt, closesAt)
  ELSE todaySameDayStatus(todayHours, todayDisplayName, now, open, opensAt, closesAt,
                          isCurrentlyOpenSameDay(now, open, close))

\* `if (timeMatch)`
todayMatchStatus(todayHours, todayDisplayName, tm, now) ==
  IF tm = Undefined THEN Undefined
  ELSE Some(todayRangeStatus(todayHours, todayDisplayName, now,
                             openTimeInMinutes(tm[1]), closeTimeInMinutes(tm[1]),
                             openTime12hr(tm[1]), closeTime12hr(tm[1])))

\* (mutant) the status for "Closed" says open
todayClosedStatus_open(todayDisplayName) ==
  [isOpen |-> JsTrue,
   currentPeriod |-> Some([day |-> todayDisplayName,
                           hours |-> <<"C","l","o","s","e","d">>,
                           isOvernightPeriod |-> FALSE,
                           closesAt |-> Undefined]),
   message |-> ClosedToday \o todayDisplayName \o <<")">>]

\* `if (todayHours.toLowerCase().includes('closed'))`
todayClosedStatus(todayDisplayName) ==
  [isOpen |-> JsFalse,
   currentPeriod |-> Some([day |-> todayDisplayName,
                           hours |-> <<"C","l","o","s","e","d">>,
                           isOvernightPeriod |-> FALSE,
                           closesAt |-> Undefined]),
   message |-> ClosedToday \o todayDisplayName \o <<")">>]

\* `if (todayHours)`
todayHoursStatus(todayHours, todayDisplayName, now) ==
  IF todayHours = Undefined THEN Undefined
  ELSE IF isClosed(todayHours[1]) THEN Some(todayClosedStatus(todayDisplayName))
  ELSE todayMatchStatus(todayHours[1], todayDisplayName, timeMatch(todayHours[1]), now)

\* the look-up of today's entry
todayStatus(hoursList, currentDay, currentTimeInMinutes) ==
  todayHoursStatus(find(hoursList, dayNames[googleDayIndex(currentDay) + 1]),
                   dayDisplayNames[googleDayIndex(currentDay) + 1],
                   currentTimeInMinutes)

\* (mutant) the flag is returned as it is, without `|| false`
orFalse_dropped(a) == a

\* a || false
orFalse(a) == IF a = JsTrue THEN a ELSE JsFalse

\* (mutant) a missing flag counts as open
fallbackStatus_defaultOpen(openNow) ==
  [isOpen |-> IF openNow = JsFalse THEN JsFalse ELSE JsTrue,
   currentPeriod |-> Undefined,
   message |-> IF openNow = JsFalse THEN CurrentlyClosed ELSE CurrentlyOpen]

\* (mutant) the two messages are exchanged
fallbackStatus_messagesSwapped(openNow) ==
  [isOpen |-> orFalse(openNow),
   currentPeriod |-> Undefined,
   message |-> IF openNow = JsTrue THEN CurrentlyClosed ELSE CurrentlyOpen]

\* Fallback to Google's status
fallbackStatus(openNow) ==
  [isOpen |-> orFalse(openNow),
   currentPeriod |-> Undefined,
   message |-> IF openNow = JsTrue THEN CurrentlyOpen ELSE CurrentlyClosed]

\* (mutant) only the missing array is tested, not the empty one
noHours_missingOnly(hoursArg) == hoursArg = Undefined

\* !openingHours || openingHours.length === 0
noHours(hoursArg) == hoursArg = Undefined \/ Len(hoursArg[1]) = 0

\* (mutant) Google's flag, when true, is believed before the hours are read
getRealTimeStatus_flagFirst(hoursArg, openNow, time) ==
  IF noHours(hoursArg)
  THEN [isOpen |-> JsFalse, currentPeriod |-> Undefined, message |-> HoursNotAvailable]
  ELSE IF openNow = JsTrue THEN fallbackStatus(openNow)
  ELSE IF yesterdayStatus(hoursArg[1], time.day, time.hours * 60 + time.minutes) # Undefined
  THEN yesterdayStatus(hoursArg[1], time.day, time.hours * 60 + time.minutes)[1]
  ELSE IF todayStatus(hoursArg[1], time.day, time.hours * 60 + time.minutes) # Undefined
  THEN todayStatus(hoursArg[1], time.day, time.hours * 60 + time.minutes)[1]
  ELSE fallbackStatus(openNow)

\* (mutant) today's hours are consulted before the carryover check
firstReturn_todayFirst(fromYesterday, fromToday, openNow) ==
  IF fromToday # Undefined THEN fromToday[1]
  ELSE IF fromYesterday # Undefined THEN fromYesterday[1]
  ELSE fallbackStatus(openNow)

\* the first return reached: the carryover check, today's hours, the fallback
firstReturn(fromYesterday, fromToday, openNow) ==
  IF fromYesterday # Undefined THEN fromYesterday[1]
  ELSE IF fromToday # Undefined THEN fromToday[1]
  ELSE fallbackStatus(openNow)

\* the body of the function after the test of the array
statusOfHours(hoursList, openNow, currentDay, currentTimeInMinutes) ==
  firstReturn(yesterdayStatus(hoursList, currentDay, currentTimeInMinutes),
              todayStatus(hoursList, currentDay, currentTimeInMinutes),
              openNow)

\* (mutant) the time of the call is read from the clock, not from the argument
nowOf_clock(time, clock) == clock

\* const now = currentTime || new Date()
nowOf(time, clock) == IF time # Undefined THEN time[1] ELSE clock

getRealTimeStatus(hoursArg, openNow, time) ==
  IF noHours(hoursArg)
  THEN [isOpen |-> JsFalse, currentPeriod |-> Undefined, message |-> HoursNotAvailable]
  ELSE statusOfHours(hoursArg[1], openNow, time.day, time.hours * 60 + time.minutes)

----------------------------------------------------------------------------
(* TypeError.  Reading a member of undefined or null (a method call, a     *)
(* destructuring) throws.  The values the function reads members of, and   *)
(* that may be undefined, are the array, the entries found for yesterday   *)
(* and today, the two matches and the minutes `min || '00'`; each is read  *)
(* under the tests the code makes before it.                               *)

\* (mutant) the tests `if (v)` and `v && ...` are left out
isTruthy_always(v) == TRUE

\* `if (v)` and `v && ...` on an entry found or on a match
isTruthy(v) == v # Undefined

\* the statement is reached and the value it reads a member of is undefined
readOfUndefined(reached, receiver) == reached /\ receiver = Undefined

\* `min || '00'`, the receiver of padStart
minOrDefault(min) == IF min = Undefined THEN Some(<<"0", "0">>) ELSE min

\* inside `if (yesterdayHours && ...)`: the destructuring of timeMatch and,
\* when the check returns, closeMin || '00'
yesterdayMatchThrows(tm, returns) ==
  \/ readOfUndefined(isTruthy(tm), tm)
  \/ isTruthy(tm) /\ readOfUndefined(returns, minOrDefault(tm[1].closeMin))

\* the carryover check: yesterdayHours.toLowerCase() and .match(...)
yesterdayThrows(yesterdayHours, returns) ==
  \/ readOfUndefined(isTruthy(yesterdayHours), yesterdayHours)
  \/ /\ isTruthy(yesterdayHours)
     /\ ~isClosed(yesterdayHours[1])
     /\ yesterdayMatchThrows(timeMatch(yesterdayHours[1]), returns)

\* inside `if (todayHours)`: the destructuring of timeMatch, openMin || '00'
\* and closeMin || '00'
todayMatchThrows(tm) ==
  \/ readOfUndefined(isTruthy(tm), tm)
  \/ /\ isTruthy(tm)
     /\ \/ readOfUndefined(TRUE, minOrDefault(tm[1].openMin))
        \/ readOfUndefined(TRUE, minOrDefault(tm[1].closeMin))

\* today's hours: todayHours.toLowerCase() and .match(...)
todayThrows(todayHours) ==
  \/ readOfUndefined(isTruthy(todayHours), todayHours)
  \/ /\ isTruthy(todayHours)
     /\ ~isClosed(todayHours[1])
     /\ todayMatchThrows(timeMatch(todayHours[1]))

\* the body of the function after the test of the array
hoursThrow(hoursList, currentDay, fromYesterday) ==
  \/ yesterdayThrows(find(hoursList, dayNames[yesterdayDayIndex(currentDay) + 1]),
                     fromYesterday # Undefined)
  \/ /\ fromYesterday = Undefined
     /\ todayThrows(find(hoursList, dayNames[googleDayIndex(currentDay) + 1]))

\* the call throws a TypeError
getRealTimeStatusThrows(hoursArg, time) ==
  \/ readOfUndefined(~noHours(hoursArg), hoursArg)
  \/ /\ ~noHours(hoursArg)
     /\ hoursThrow(hoursArg[1], time.day,
                   yesterdayStatus(hoursArg[1], time.day, time.hours * 60 + time.minutes))

----------------------------------------------------------------------------
(* The inputs of a call and the state machine.                             *)

MaxEntries == 2

Closed == <<"C","l","o","s","e","d">>
SometimesOpen == <<"S","o","m","e","t","i","m","e","s"," ","o","p","e","n">>
T2am  == <<"2",":","0","0"," ","a","m">>
T9am  == <<"9",":","0","0"," ","a","m">>
T11am == <<"1","1",":","0","0"," ","a","m">>
T1pm  == <<"1",":","0","0"," ","p","m">>
T5pm  == <<"5",":","0","0"," ","p","m">>
T6pm  == <<"6",":","0","0"," ","p","m">>

\* "<from> (en dash) <to>" and "<Day>: <text>"
Range(from, to) == from \o <<" ", "ndash", " ">> \o to
Entry(day, text) == day \o <<":", " ">> \o text

Monday   == <<"M","o","n","d","a","y">>
Friday   == <<"F","r","i","d","a","y">>
Saturday == <<"S","a","t","u","r","d","a","y">>
Sunday   == <<"S","u","n","d","a","y">>

\* the weekday descriptions that carry one time range
RangeEntries ==
  { [day |-> Monday,   from |-> T9am, to |-> T5pm],
    [day |-> Monday,   from |-> T9am, to |-> T2am],
    [day |-> Sunday,   from |-> T5pm, to |-> T2am],
    [day |-> Sunday,   from |-> T9am, to |-> T11am],
    [day |-> Friday,   from |-> T5pm, to |-> T2am],
    [day |-> Friday,   from |-> T6pm, to |-> T1pm],
    [day |-> Saturday, from |-> T9am, to |-> T5pm] }

Text(r) == Entry(r.day, Range(r.from, r.to))

MondayClosed   == Entry(Monday, Closed)
Friday5pm2am   == Entry(Friday, Range(T5pm, T2am))
SaturdayClosed == Entry(Saturday, Closed)
MondaySometimesOpen == Entry(Monday, SometimesOpen)

\* the weekday descriptions schedules are built from
Pool == {Text(r) : r \in RangeEntries}
        \cup {MondayClosed, SaturdayClosed, MondaySometimesOpen}

Schedules ==
  {Undefined} \cup {Some(s) : s \in UNION {[1..n -> Pool] : n \in 0..MaxEntries}}

\* wall-clock times <<hours, minutes>> at and around the times of the pool
ClockTimes ==
  { <<0, 0>>, <<1, 30>>, <<2, 0>>, <<2, 1>>, <<3, 0>>, <<8, 59>>, <<9, 0>>,
    <<10, 0>>, <<11, 0>>, <<11, 1>>, <<13, 0>>, <<13, 1>>, <<17, 0>>, <<17, 1>>,
    <<18, 0>>, <<23, 0>>, <<23, 59>> }

Times == {[day |-> d, hours |-> t[1], minutes |-> t[2]] : d \in 0..6, t \in ClockTimes}

\* the clock of the server when nothing is said about it
Midnight == [day |-> 0, hours |-> 0, minutes |-> 0]

\* no request is being handled
NoRequest ==
  /\ places = <<>>
  /\ restaurantPromises = <<>>
  /\ availableRestaurants = Undefined
  /\ rankedRestaurants = Undefined

Init ==
  /\ openingHours \in Schedules
  /\ googleOpenNow \in {Undefined, JsTrue, JsFalse}
  /\ currentTime \in Times
  /\ result = Undefined
  /\ thrown = FALSE
  /\ wallClock = Midnight
  /\ again = Undefined
  /\ locals = Undefined
  /\ customOpenCheck = Undefined
  /\ NoRequest

\* one call getRealTimeStatus(openingHours, googleOpenNow, currentTime):
\* it throws or it returns
Call ==
  /\ result = Undefined /\ ~thrown
  /\ thrown' = getRealTimeStatusThrows(openingHours, nowOf(Some(currentTime), wallClock))
  /\ result' = IF thrown' THEN Undefined
                ELSE Some(getRealTimeStatus(openingHours, googleOpenNow,
                                            nowOf(Some(currentTime), wallClock)))
  /\ UNCHANGED <<openingHours, googleOpenNow, currentTime, wallClock, again, locals, customOpenCheck, postVars>>

Next == Call

Spec == Init /\ [][Next]_vars

----------------------------------------------------------------------------
(* Calls on malformed schedules: entries without minutes, without the      *)
(* ": " separator, with times out of range, with half a range, with a name *)
(* that is no day, and the empty string.                                   *)

T9   == <<"9"," ","a","m">>
T5   == <<"5"," ","p","m">>
T2   == <<"2"," ","a","m">>
T25pm == <<"2","5",":","0","0"," ","p","m">>
T99pm == <<"9","9",":","9","9"," ","p","m">>

MondayNoMinutes   == Entry(Monday, Range(T9, T5))
SundayNoMinutes   == Entry(Sunday, T5 \o <<"-">> \o T2)
MondayNoSeparator == Monday \o <<" ">> \o Range(T9am, T5pm)
MondayOutOfRange  == Entry(Monday, Range(T25pm, T99pm))
MondayHalfRange   == Entry(Monday, T9am \o <<" ", "ndash">>)
Holiday           == Entry(<<"H","o","l","i","d","a","y">>, Range(T9am, T5pm))
EmptyText         == <<>>

MalformedPool ==
  { MondayNoMinutes, SundayNoMinutes, MondayNoSeparator, MondayOutOfRange,
    MondayHalfRange, Holiday, EmptyText, MondaySometimesOpen }

MalformedSchedules ==
  {Undefined} \cup {Some(s) : s \in UNION {[1..n -> MalformedPool] : n \in 0..MaxEntries}}

MalformedTimes ==
  {[day |-> d, hours |-> t[1], minutes |-> t[2]] :
     d \in {0, 1, 2}, t \in {<<0, 0>>, <<1, 30>>, <<10, 0>>, <<23, 59>>}}

MalformedInit ==
  /\ openingHours \in MalformedSchedules
  /\ googleOpenNow \in {Undefined, JsTrue, JsFalse}
  /\ currentTime \in MalformedTimes
  /\ result = Undefined
  /\ thrown = FALSE
  /\ wallClock = Midnight
  /\ again = Undefined
  /\ locals = Undefined
  /\ customOpenCheck = Undefined
  /\ NoRequest

MalformedSpec == MalformedInit /\ [][Next]_vars

----------------------------------------------------------------------------
(* Two calls with the same arguments, the clock of the server moving       *)
(* between them.                                                           *)

WallClocks ==
  { Midnight, [day |-> 1, hours |-> 10, minutes |-> 0],
    [day |-> 6, hours |-> 1, minutes |-> 30] }

TwiceTimes ==
  {[day |-> d, hours |-> t[1], minutes |-> t[2]] :
     d \in 0..6, t \in {<<1, 30>>, <<10, 0>>, <<23, 0>>}}

TwiceInit ==
  /\ openingHours \in Schedules
  /\ googleOpenNow \in {Undefined, JsTrue, JsFalse}
  /\ currentTime \in TwiceTimes
  /\ result = Undefined
  /\ thrown = FALSE
  /\ wallClock \in WallClocks
  /\ again = Undefined
  /\ locals = Undefined
  /\ customOpenCheck = Undefined
  /\ NoRequest

\* time passes on the server
Tick ==
  /\ wallClock' \in WallClocks \ {wallClock}
  /\ UNCHANGED <<openingHours, googleOpenNow, currentTime, result, thrown, again, locals, customOpenCheck, postVars>>

\* a second call getRealTimeStatus(openingHours, googleOpenNow, currentTime)
CallAgain ==
  /\ result # Undefined /\ again = Undefined
  /\ again' = Some(getRealTimeStatus(openingHours, googleOpenNow,
                                     nowOf(Some(currentTime), wallClock)))
  /\ UNCHANGED <<openingHours, googleOpenNow, currentTime, result, thrown, wallClock, locals, customOpenCheck, postVars>>

TwiceNext == Call \/ Tick \/ CallAgain

TwiceSpec == TwiceInit /\ [][TwiceNext]_vars

----------------------------------------------------------------------------
(* The POST handler: the places found are processed concurrently, one      *)
(* async function per place, then filtered and ranked.  A place is the     *)
(* record of what the handler reads of it; its location stands for the     *)
(* local time there, which is what the timezone lookup is for.             *)

MaxPlaces == 2

\* radius / 1000, for the radius of the request
radiusInKm == 2

\* the clock of the server during the request, and a local time of places
ServerTime == [day |-> 1, hours |-> 23, minutes |-> 0]
LocalTime  == [day |-> 1, hours |-> 10, minutes |-> 0]

Place(hours, flag, status, where, named, reviewed, stars, km) ==
  [weekdayDescriptions |-> hours, openNow |-> flag, businessStatus |-> status,
   location |-> where, photoName |-> named, reviews |-> reviewed,
   rating |-> stars, distance |-> km]

DayHours   == Some(<<Entry(Monday, Range(T9am, T5pm))>>)
NightHours == Some(<<Entry(Monday, Range(T9am, T2am))>>)
NoDayOff   == Some(<<MondayClosed>>)
Unparsable == Some(<<MondaySometimesOpen>>)
Named      == Some("name")

\* the places a search returns
PlaceKinds ==
  { Place(DayHours,   JsFalse,   "OPERATIONAL", Some(LocalTime), Named, TRUE, 4, Some(1)),
    Place(DayHours,   JsTrue,    "OPERATIONAL", Undefined, Named, FALSE, 5, Undefined),
    Place(NightHours, Undefined, "OPERATIONAL", Undefined, Named, FALSE, 3, Undefined),
    Place(NoDayOff,   JsTrue,    "OPERATIONAL", Some(LocalTime), Named, TRUE, 4, Some(1)),
    Place(Undefined,  JsTrue,    "OPERATIONAL", Some(LocalTime), Named, TRUE, 5, Some(1)),
    Place(DayHours,   JsTrue,    "CLOSED_TEMPORARILY", Some(LocalTime), Named, TRUE, 5, Some(1)),
    Place(Unparsable, JsTrue,    "OPERATIONAL", Some(LocalTime), Named, FALSE, 5, Some(2)),
    Place(Unparsable, JsTrue,    "OPERATIONAL", Some(LocalTime), Named, TRUE, 3, Some(3)),
    Place(DayHours,   JsTrue,    "OPERATIONAL", Some(LocalTime), Undefined, TRUE, 5, Some(1)) }

\* one async function of restaurantPromises: where it is, and its locals
Task(pc, time, sentence, value) ==
  [pc |-> pc, restaurantLocalTime |-> time, aiRecommendation |-> sentence, value |-> value]

\* what a function has settled with: it resolved with null or with a
\* restaurant, or it rejected
Null == [id |-> 0]
Rejected == [id |-> -1]

PostInit ==
  /\ openingHours = Undefined
  /\ googleOpenNow = Undefined
  /\ currentTime = Midnight
  /\ result = Undefined
  /\ thrown = FALSE
  /\ wallClock = ServerTime
  /\ again = Undefined
  /\ locals = Undefined
  /\ customOpenCheck = Undefined
  /\ places \in UNION {[1..n -> PlaceKinds] : n \in 1..MaxPlaces}
  /\ restaurantPromises = [i \in 1..Len(places) |-> Task("start", Undefined, Undefined, Undefined)]
  /\ availableRestaurants = Undefined
  /\ rankedRestaurants = Undefined

\* restaurantLocalTime = new Date(), then await getLocationTime(...) when the
\* place has a location: the local time, or the server's when the lookup
\* fails or its status is not OK
GetLocationTime(i) ==
  /\ restaurantPromises[i].pc = "start"
  /\ \E timezoneOk \in BOOLEAN :
       restaurantPromises' =
         [restaurantPromises EXCEPT
            ![i] = Task("located",
                        IF places[i].location # Undefined /\ timezoneOk
                        THEN places[i].location ELSE Some(wallClock),
                        Undefined, Undefined)]
  /\ UNCHANGED <<openingHours, googleOpenNow, currentTime, result, thrown, wallClock, again, locals, customOpenCheck,
                 places, availableRestaurants, rankedRestaurants>>

\* (mutant) the business status is not tested
skipped_hoursOnly(place) == place.weekdayDescriptions = Undefined

\* !weekdayDescriptions || businessStatus === 'CLOSED_TEMPORARILY'
skipped(place) ==
  place.weekdayDescriptions = Undefined \/ place.businessStatus = "CLOSED_TEMPORARILY"

\* photoName.split('/photos/') on a photo without a name
photoThrows(place) == place.photoName = Undefined

\* (mutant) an error thrown for one place is not caught: the function rejects
caught_rejects(throws, value) == IF throws THEN Rejected ELSE value

\* try { ... } catch (error) { return null }
caught(throws, value) == IF throws THEN Null ELSE value

\* From the skip tests to the recommendation: return null for a skipped
\* place, the catch (return null) for a TypeError, else the sentence of the
\* model or, without reviews or when the call fails, the generic one.
Recommend(i) ==
  /\ restaurantPromises[i].pc = "located"
  /\ \E aiOk \in BOOLEAN :
       restaurantPromises' =
         [restaurantPromises EXCEPT
            ![i] = IF skipped(places[i])
                   THEN Task("done", @.restaurantLocalTime, Undefined, Some(Null))
                   ELSE IF photoThrows(places[i])
                   THEN Task("done", @.restaurantLocalTime, Undefined,
                             Some(caught(TRUE, Null)))
                   ELSE Task("recommended", @.restaurantLocalTime,
                             IF places[i].reviews /\ aiOk THEN Some("sentence")
                             ELSE Some("generic"),
                             Undefined)]
  /\ UNCHANGED <<openingHours, googleOpenNow, currentTime, result, thrown, wallClock, again, locals, customOpenCheck,
                 places, availableRestaurants, rankedRestaurants>>

\* the restaurant built from a place and its status
Restaurant(i, place, sentence, realTimeStatus) ==
  [id |-> i, isOpen |-> realTimeStatus.isOpen, rating |-> place.rating,
   distance |-> place.distance, aiRecommendation |-> sentence,
   realTimeStatus |-> realTimeStatus]

\* (mutant) the verdict is not tested
resolved_unfiltered(i, place, sentence, realTimeStatus) ==
  Restaurant(i, place, sentence, realTimeStatus)

\* if (!realTimeStatus.isOpen) return null; ... return restaurant
resolved(i, place, sentence, realTimeStatus) ==
  IF realTimeStatus.isOpen # JsTrue THEN Null
  ELSE Restaurant(i, place, sentence, realTimeStatus)

\* realTimeStatus = getRealTimeStatus(...), the test of its verdict, the
\* restaurant
Evaluate(i) ==
  /\ restaurantPromises[i].pc = "recommended"
  /\ restaurantPromises' =
       [restaurantPromises EXCEPT
          ![i] = Task("done", @.restaurantLocalTime, @.aiRecommendation,
                      Some(caught(getRealTimeStatusThrows(places[i].weekdayDescriptions,
                                                          @.restaurantLocalTime[1]),
                                  resolved(i, places[i], @.aiRecommendation[1],
                                           getRealTimeStatus(places[i].weekdayDescriptions,
                                                             places[i].openNow,
                                                             @.restaurantLocalTime[1]))))) ]
  /\ UNCHANGED <<openingHours, googleOpenNow, currentTime, result, thrown, wallClock, again, locals, customOpenCheck,
                 places, availableRestaurants, rankedRestaurants>>

\* (await Promise.all(restaurantPromises)).filter(Boolean)
RECURSIVE filterBoolean(_)
filterBoolean(values) ==
  IF values = <<>> THEN <<>>
  ELSE IF Head(values) = Null THEN filterBoolean(Tail(values))
  ELSE <<Head(values)>> \o filterBoolean(Tail(values))

\* the test of availableRestaurants: open, and within the radius when the
\* distance is known
available(restaurant) ==
  /\ restaurant.isOpen = JsTrue
  /\ restaurant.distance # Undefined => restaurant.distance[1] <= radiusInKm

RECURSIVE filterAvailable(_)
filterAvailable(restaurants) ==
  IF restaurants = <<>> THEN <<>>
  ELSE IF available(Head(restaurants))
  THEN <<Head(restaurants)>> \o filterAvailable(Tail(restaurants))
  ELSE filterAvailable(Tail(restaurants))

\* the values the functions have settled with
settled == [i \in 1..Len(restaurantPromises) |-> restaurantPromises[i].value[1]]

\* Promise.all and the two filters.  Were a function to reject, Promise.all
\* would reject and the catch of the handler would answer with an error and
\* no restaurant.
Collect ==
  /\ availableRestaurants = Undefined
  /\ \A i \in 1..Len(restaurantPromises) : restaurantPromises[i].pc = "done"
  /\ Len(places) > 0
  /\ IF \E i \in 1..Len(settled) : settled[i] = Rejected
     THEN /\ availableRestaurants' = Some(<<>>)
          /\ rankedRestaurants' = Some(<<>>)
     ELSE /\ availableRestaurants' = Some(filterAvailable(filterBoolean(settled)))
          /\ UNCHANGED rankedRestaurants
  /\ UNCHANGED <<openingHours, googleOpenNow, currentTime, result, thrown, wallClock, again, locals, customOpenCheck,
                 places, restaurantPromises>>

\* an element of the response: the fields of a restaurant, when there are
\* any, and claudeReasoning, when the model gave one
Ranked(restaurant, reasoning) == [restaurant |-> restaurant, claudeReasoning |-> reasoning]

\* The restaurantIndex values of the recommendations: -1, 0, 0.5, 1 and 2,
\* each written as twice the number, so that the half can be written.
RestaurantIndices == {-2, 0, 1, 2, 4}

MaxRecommendations == 2

\* what the ranking call can come to: recommendations, a JSON object
\* without them, a text that is no JSON, an error of the API
AiOutcomes ==
  {[kind |-> "recommendations", recommendations |-> r] :
     r \in UNION {[1..n -> RestaurantIndices] : n \in 0..MaxRecommendations}}
  \cup {[kind |-> k, recommendations |-> <<>>] : k \in {"noArray", "unparsable", "apiError"}}

\* index >= 0 && index < availableRestaurants.length && !usedIndices.has(index)
accepted(list, usedIndices, index) ==
  index >= 0 /\ index < 2 * Len(list) /\ index \notin usedIndices

\* availableRestaurants[index]: undefined unless index is a whole number
elementAt(list, index) == IF index % 2 = 0 THEN Some(list[(index \div 2) + 1]) ELSE Undefined

\* the first loop: { ...availableRestaurants[index], claudeReasoning }
RECURSIVE recommended(_, _, _)
recommended(list, recommendations, usedIndices) ==
  IF recommendations = <<>> THEN <<>>
  ELSE IF accepted(list, usedIndices, Head(recommendations))
  THEN <<Ranked(elementAt(list, Head(recommendations)), Some("reasoning"))>>
       \o recommended(list, Tail(recommendations), usedIndices \cup {Head(recommendations)})
  ELSE recommended(list, Tail(recommendations), usedIndices)

\* usedIndices after the first loop
used(list, recommendations) ==
  {recommendations[k] : k \in {j \in 1..Len(recommendations) : accepted(list, {}, recommendations[j])}}

\* the second loop: the restaurants whose index was not used, from i on
RECURSIVE remaining(_, _, _)
remaining(list, usedIndices, i) ==
  IF i >= Len(list) THEN <<>>
  ELSE IF 2 * i \notin usedIndices
  THEN <<Ranked(Some(list[i + 1]), Undefined)>> \o remaining(list, usedIndices, i + 1)
  ELSE remaining(list, usedIndices, i + 1)

\* the comparison function of the fallback sort
compare(a, b) ==
  IF a.isOpen # b.isOpen THEN (IF a.isOpen = JsTrue THEN -1 ELSE 1)
  ELSE IF /\ a.distance # Undefined /\ b.distance # Undefined
          /\ a.distance[1] # b.distance[1]
  THEN a.distance[1] - b.distance[1]
  ELSE b.rating - a.rating

\* The orders availableRestaurants.sort(compare) can leave: no element is
\* followed by one that compares lower.  (Array.prototype.sort is stable;
\* elements that compare equal are left here in any order.)
sorted(list) ==
  LET orders == {f \in [1..Len(list) -> 1..Len(list)] : \A i, j \in 1..Len(list) : f[i] = f[j] => i = j}
  IN  {[k \in 1..Len(list) |-> Ranked(Some(list[f[k]]), Undefined)] :
         f \in {g \in orders : \A k \in 1..(Len(list) - 1) : compare(list[g[k]], list[g[k + 1]]) <= 0}}

\* rankedRestaurants for an outcome of the ranking call
ranked(list, ai) ==
  IF ai.kind = "recommendations"
  THEN {recommended(list, ai.recommendations, {})
        \o remaining(list, used(list, ai.recommendations), 0)}
  ELSE IF ai.kind = "noArray"
  THEN {[k \in 1..Len(list) |-> Ranked(Some(list[k]), Undefined)]}
  ELSE sorted(list)

\* the ranking call and the response
Rank ==
  /\ availableRestaurants # Undefined
  /\ rankedRestaurants = Undefined
  /\ \E ai \in AiOutcomes :
       \E order \in ranked(availableRestaurants[1], ai) :
         rankedRestaurants' = Some(order)
  /\ UNCHANGED <<openingHours, googleOpenNow, currentTime, result, thrown, wallClock, again, locals, customOpenCheck,
                 places, restaurantPromises, availableRestaurants>>

PostNext ==
  \/ \E i \in 1..Len(places) : GetLocationTime(i) \/ Recommend(i) \/ Evaluate(i)
  \/ Collect
  \/ Rank

PostSpec == PostInit /\ [][PostNext]_vars

----------------------------------------------------------------------------
(* The locals of getRealTimeStatus: the names of the days, the entries     *)
(* found under them and the times of the range in minutes since midnight.  *)

\* the decimal text of a number below 100, as the weekday descriptions
\* write hours
decimal(n) == IF n < 10 THEN <<Digits[n + 1]>> ELSE <<Digits[(n \div 10) + 1], Digits[(n % 10) + 1]>>

\* "H:MM am", "H am": the hours, the minutes when written (two digits), and
\* the period
TimeText(hour, min, period) ==
  decimal(hour)
  \o (IF min = Undefined THEN <<>> ELSE <<":">> \o padStart(decimal(min[1])))
  \o <<" ">> \o period

\* the times a description can carry: every hour and minute of the 12-hour
\* clock, and hours and minutes no clock shows
TimeTexts ==
  {TimeText(hour, min, period) :
     hour \in 0..13 \cup {99},
     min \in {Undefined} \cup {Some(n) : n \in 0..60 \cup {99}},
     period \in {<<"a","m">>, <<"p","m">>}}

\* Monday's entry with the time as its open time or as its close time, in
\* lower or in upper case
TimeSchedules ==
  {Some(<<Entry(Monday, Range(t, T5pm))>>) : t \in TimeTexts}
  \cup {Some(<<Entry(Monday, Range(T9am, t))>>) : t \in TimeTexts}
  \cup {Some(<<Entry(Monday, toUpperCase(Range(T9am, t)))>>) :
          t \in {TimeText(hour, Some(30), <<"p","m">>) : hour \in 1..12}}

\* one entry, for each day of the week
DaySchedules ==
  {Some(<<Entry(dayDisplayNames[k], Range(T9am, T5pm))>>) : k \in 1..7}

\* a call at noon of a Monday or a Tuesday with Monday's entry, or at noon
\* of any day with the entry of any day
ConvertInit ==
  /\ \/ openingHours \in TimeSchedules /\ currentTime \in {[day |-> day, hours |-> 12, minutes |-> 0] : day \in 1..2}
     \/ openingHours \in DaySchedules /\ currentTime \in {[day |-> day, hours |-> 12, minutes |-> 0] : day \in 0..6}
  /\ googleOpenNow = Undefined
  /\ result = Undefined
  /\ thrown = FALSE
  /\ wallClock = Midnight
  /\ again = Undefined
  /\ locals = Undefined
  /\ customOpenCheck = Undefined
  /\ NoRequest

\* inside `if (timeMatch)` of the carryover check: closeTimeInMinutes
minutesOfYesterday(tm) ==
  IF tm = Undefined THEN Undefined ELSE Some(yesterdayCloseTimeInMinutes(tm[1]))

\* `if (yesterdayHours && !yesterdayHours.toLowerCase().includes('closed'))`
yesterdayMinutes(yesterdayHours) ==
  IF yesterdayHours # Undefined /\ ~isClosed(yesterdayHours[1])
  THEN minutesOfYesterday(timeMatch(yesterdayHours[1]))
  ELSE Undefined

\* inside `if (timeMatch)` of today's hours: openTimeInMinutes, closeTimeInMinutes
minutesOfToday(tm) ==
  IF tm = Undefined THEN Undefined
  ELSE Some([openTimeInMinutes |-> openTimeInMinutes(tm[1]),
             closeTimeInMinutes |-> closeTimeInMinutes(tm[1])])

\* `if (todayHours)`, after the return for "closed"
todayMinutes(todayHours) ==
  IF todayHours = Undefined \/ isClosed(todayHours[1]) THEN Undefined
  ELSE minutesOfToday(timeMatch(todayHours[1]))

\* the locals of today's hours, which exist when the carryover check did
\* not return
localsOfToday(reached, hoursList, todayName) ==
  IF reached
  THEN Some([todayName |-> todayName,
             todayHours |-> find(hoursList, todayName),
             minutes |-> todayMinutes(find(hoursList, todayName))])
  ELSE Undefined

localsOfYesterday(hoursList, yesterdayName, today) ==
  [yesterdayName |-> yesterdayName,
   yesterdayHours |-> find(hoursList, yesterdayName),
   closeTimeInMinutes |-> yesterdayMinutes(find(hoursList, yesterdayName)),
   today |-> today]

localsOf(hoursList, currentDay, currentTimeInMinutes) ==
  localsOfYesterday(hoursList, dayNames[yesterdayDayIndex(currentDay) + 1],
                    localsOfToday(yesterdayStatus(hoursList, currentDay, currentTimeInMinutes) = Undefined,
                                  hoursList, dayNames[googleDayIndex(currentDay) + 1]))

\* the call, as far as the conversion of the times
Convert ==
  /\ locals = Undefined
  /\ customOpenCheck = Undefined
  /\ ~noHours(openingHours)
  /\ locals' = Some(localsOf(openingHours[1], currentTime.day,
                             currentTime.hours * 60 + currentTime.minutes))
  /\ UNCHANGED <<openingHours, googleOpenNow, currentTime, result, thrown, wallClock, again,
                 customOpenCheck, postVars>>

ConvertSpec == ConvertInit /\ [][Convert]_vars

----------------------------------------------------------------------------
(* isRestaurantOpen, the boolean check the handler makes next to           *)
(* getRealTimeStatus.                                                      *)

\* (mutant) the close time itself is excluded from same-day hours
isOpenInRange_exclusive(now, open, close) ==
  IF close < open THEN now >= open \/ now <= close ELSE now >= open /\ now < close

\* the two returns of checkTimeRange after the conversion: overnight hours
\* and same-day hours
isOpenInRange(now, open, close) ==
  IF close < open THEN now >= open \/ now <= close ELSE now >= open /\ now <= close

\* `if (!timeMatch) return false`, the conversion and the comparison
checkTimeMatch(tm, now) ==
  IF tm = Undefined THEN FALSE
  ELSE isOpenInRange(now, openTimeInMinutes(tm[1]), closeTimeInMinutes(tm[1]))

\* function checkTimeRange(hoursString)
checkTimeRange(hoursString, now) ==
  IF isClosed(hoursString) THEN FALSE ELSE checkTimeMatch(timeMatch(hoursString), now)

\* inside `if (timeMatch)` of the carryover check: `return true` is reached
stillOpenFromYesterday(tm, now) ==
  IF tm = Undefined THEN FALSE
  ELSE /\ toLowerCase(tm[1].closePeriod) = <<"a","m">>
       /\ yesterdayCloseTimeInMinutes(tm[1]) <= 12 * 60
       /\ now <= yesterdayCloseTimeInMinutes(tm[1])

\* `if (yesterdayHours && !yesterdayHours.toLowerCase().includes('closed'))`
openFromYesterday(yesterdayHours, now) ==
  /\ yesterdayHours # Undefined
  /\ ~isClosed(yesterdayHours[1])
  /\ stillOpenFromYesterday(timeMatch(yesterdayHours[1]), now)

\* `if (todayHours && checkTimeRange(todayHours)) return true; return false`
openToday(todayHours, now) == todayHours # Undefined /\ checkTimeRange(todayHours[1], now)

\* the body of the function after the test of the array
openByHours(hoursList, currentDay, now) ==
  \/ openFromYesterday(find(hoursList, dayNames[yesterdayDayIndex(currentDay) + 1]), now)
  \/ openToday(find(hoursList, dayNames[googleDayIndex(currentDay) + 1]), now)

isRestaurantOpen(hoursArg, time) ==
  IF noHours(hoursArg) THEN FALSE
  ELSE openByHours(hoursArg[1], time.day, time.hours * 60 + time.minutes)

\* one call isRestaurantOpen(openingHours, currentTime), before the call of
\* getRealTimeStatus as in the handler
CheckOpen ==
  /\ customOpenCheck = Undefined
  /\ result = Undefined /\ ~thrown
  /\ customOpenCheck' = Some(isRestaurantOpen(openingHours, nowOf(Some(currentTime), wallClock)))
  /\ UNCHANGED <<openingHours, googleOpenNow, currentTime, result, thrown, wallClock, again,
                 locals, postVars>>

BothNext == CheckOpen \/ Call

BothSpec == Init /\ [][BothNext]_vars

----------------------------------------------------------------------------
(* The status minute by minute: the clock advances by one minute, through  *)
(* the days of the week, and getRealTimeStatus is called at each minute.   *)

\* "Monday: 11:00 am - 2:00 pm, 5:00 pm - 10:00 pm": two ranges in one entry
MondayTwoRanges ==
  Entry(Monday, Range(T11am, <<"2",":","0","0"," ","p","m">>) \o <<",", " ">>
                \o Range(T5pm, <<"1","0",":","0","0"," ","p","m">>))

MinuteSchedules ==
  { Some(<<Friday5pm2am>>),
    Some(<<Friday5pm2am, SaturdayClosed>>),
    Some(<<Friday5pm2am, Entry(Saturday, Range(T9am, T5pm))>>),
    Some(<<Entry(Friday, Range(T6pm, T1pm))>>),
    Some(<<MondayTwoRanges>>) }

MinuteInit ==
  /\ openingHours \in MinuteSchedules
  /\ googleOpenNow \in {Undefined, JsTrue}
  /\ currentTime \in {[day |-> day, hours |-> 0, minutes |-> 0] : day \in 0..6}
  /\ result = Undefined
  /\ thrown = FALSE
  /\ wallClock = Midnight
  /\ again = Undefined
  /\ locals = Undefined
  /\ customOpenCheck = Undefined
  /\ NoRequest

\* the Date one minute later
nextMinute(time) ==
  IF time.minutes < 59 THEN [time EXCEPT !.minutes = @ + 1]
  ELSE IF time.hours < 23 THEN [time EXCEPT !.hours = @ + 1, !.minutes = 0]
  ELSE [day |-> (time.day + 1) % 7, hours |-> 0, minutes |-> 0]

\* a minute passes between one call and the next
Advance ==
  /\ result # Undefined
  /\ currentTime' = nextMinute(currentTime)
  /\ result' = Undefined
  /\ UNCHANGED <<openingHours, googleOpenNow, thrown, wallClock, again, locals,
                 customOpenCheck, postVars>>

MinuteNext == Call \/ Advance

MinuteSpec == MinuteInit /\ [][MinuteNext]_vars

----------------------------------------------------------------------------
(* Vocabulary of the properties.  Nothing below is used by the model: the  *)
(* expected values are written out by hand, from the clock and the         *)
(* calendar, so that the model is compared with something other than       *)
(* itself.                                                                 *)

Called == result # Undefined
Status == result[1]
Now == currentTime.hours * 60 + currentTime.minutes
Schedule == IF openingHours = Undefined THEN <<>> ELSE openingHours[1]

\* the names of the days, by getDay()
WeekDays ==
  << Sunday, Monday, <<"T","u","e","s","d","a","y">>,
     <<"W","e","d","n","e","s","d","a","y">>, <<"T","h","u","r","s","d","a","y">>,
     Friday, Saturday >>
Today == WeekDays[currentTime.day + 1]
Yesterday == WeekDays[((currentTime.day + 6) % 7) + 1]

\* minutes since midnight and the 12-hour text of the times of the pool
RefMinutes(t) ==
  CASE t = T2am -> 120 [] t = T9am -> 540 [] t = T11am -> 660
    [] t = T1pm -> 780 [] t = T5pm -> 1020 [] t = T6pm -> 1080
RefText(t) ==
  CASE t = T2am  -> <<"2",":","0","0"," ","A","M">>
    [] t = T9am  -> <<"9",":","0","0"," ","A","M">>
    [] t = T11am -> <<"1","1",":","0","0"," ","A","M">>
    [] t = T1pm  -> <<"1",":","0","0"," ","P","M">>
    [] t = T5pm  -> <<"5",":","0","0"," ","P","M">>
    [] t = T6pm  -> <<"6",":","0","0"," ","P","M">>
RefIsAm(t) == t \in {T2am, T9am, T11am}

\* the entry of a day: the first entry of the schedule that names the day
EntryOf(day) ==
  LET named == {i \in 1..Len(Schedule) : SubSeq(Schedule[i], 1, Len(day)) = day}
  IN  IF named = {} THEN Undefined ELSE Some(Schedule[Min(named)])

IsRange(e) == \E r \in RangeEntries : Text(r) = e
RangeOf(e) == CHOOSE r \in RangeEntries : Text(r) = e
IsClosedEntry(e) == e \in {MondayClosed, SaturdayClosed}

\* the range of a day's entry crosses midnight
Overnight(r) == RefMinutes(r.to) < RefMinutes(r.from)

\* The carryover check of the code returns: yesterday's entry is a range
\* that closes in the morning, at or after the current time.
CarryoverApplies ==
  LET y == EntryOf(Yesterday)
  IN  /\ y # Undefined
      /\ IsRange(y[1])
      /\ RefIsAm(RangeOf(y[1]).to)
      /\ RefMinutes(RangeOf(y[1]).to) <= 720
      /\ Now <= RefMinutes(RangeOf(y[1]).to)

\* The carryover check was made and did not return.
CarryoverFallsThrough == Schedule # <<>> /\ ~CarryoverApplies

NoPeriod(status) == status.currentPeriod = Undefined

----------------------------------------------------------------------------
(* C1: called with an empty or a missing schedule, getRealTimeStatus       *)
(* returns exactly { isOpen: false, message: "Hours not available" },      *)
(* without currentPeriod, at every time and for every fallback flag.       *)
C1_EmptySchedule ==
  (Called /\ (openingHours = Undefined \/ openingHours = Some(<<>>)))
  => Status = [isOpen |-> JsFalse,
               currentPeriod |-> Undefined,
               message |-> <<"H","o","u","r","s"," ","n","o","t"," ",
                             "a","v","a","i","l","a","b","l","e">>]

\* The call on an empty array with the fallback flag true has returned.
C1_Witness == Called /\ openingHours = Some(<<>>) /\ googleOpenNow = JsTrue

----------------------------------------------------------------------------
(* C2, as stated: with "Monday: Closed" as Monday's entry, at every time   *)
(* of a Monday and whatever the other entries are, isOpen is false and     *)
(* the message is "Closed today (Monday)".                                 *)
ExpectedClosedMonday ==
  /\ Status.isOpen = JsFalse
  /\ Status.message = <<"C","l","o","s","e","d"," ","t","o","d","a","y"," ",
                        "(","M","o","n","d","a","y",")">>

C2_AsStated ==
  (Called /\ currentTime.day = 1 /\ EntryOf(Monday) = Some(MondayClosed))
  => ExpectedClosedMonday

(* C2, amended: the same, at the times of a Monday at which the carryover  *)
(* check on Sunday's entry does not return.                                *)
C2_ClosedMonday ==
  (Called /\ currentTime.day = 1 /\ EntryOf(Monday) = Some(MondayClosed)
          /\ ~CarryoverApplies)
  => ExpectedClosedMonday

\* Monday 03:00, Sunday open until 2:00 am, Monday closed: the call returned.
C2_Witness ==
  /\ Called
  /\ currentTime = [day |-> 1, hours |-> 3, minutes |-> 0]
  /\ EntryOf(Monday) = Some(MondayClosed)
  /\ EntryOf(Sunday) = Some(Entry(Sunday, Range(T5pm, T2am)))
  /\ Status.isOpen = JsFalse

----------------------------------------------------------------------------
(* The verdict and the message for a range that does not cross midnight.   *)
SameDayVerdict(r) ==
  LET open  == RefMinutes(r.from)
      close == RefMinutes(r.to)
      OpenUntil_    == <<"O","p","e","n"," ","u","n","t","i","l"," ">>
      ClosedOpens_  == <<"C","l","o","s","e","d"," ","-"," ","O","p","e","n","s"," ">>
  IN  IF open <= Now /\ Now <= close
      THEN /\ Status.isOpen = JsTrue
           /\ Status.message = OpenUntil_ \o RefText(r.to)
      ELSE /\ Status.isOpen = JsFalse
           /\ Status.message =
                IF Now < open
                THEN ClosedOpens_ \o <<"a","t"," ">> \o RefText(r.from)
                ELSE ClosedOpens_ \o RefText(r.from) \o <<" ","t","o","m","o","r","r","o","w">>

TodayIsSameDayRange ==
  /\ EntryOf(Today) # Undefined
  /\ IsRange(EntryOf(Today)[1])
  /\ ~Overnight(RangeOf(EntryOf(Today)[1]))

(* C3, as stated: when today's entry is a range with open <= close, isOpen *)
(* is true exactly when open <= current <= close, and the message is       *)
(* "Open until {closesAt}", "Closed - Opens at {opensAt}" before the open  *)
(* time and "Closed - Opens {opensAt} tomorrow" after the close time.      *)
C3_AsStated ==
  (Called /\ TodayIsSameDayRange) => SameDayVerdict(RangeOf(EntryOf(Today)[1]))

(* C3, amended: the same, when the carryover check on yesterday's entry    *)
(* does not return.                                                        *)
C3_SameDayRange ==
  (Called /\ TodayIsSameDayRange /\ ~CarryoverApplies)
  => SameDayVerdict(RangeOf(EntryOf(Today)[1]))

\* Monday 17:00 with "Monday: 9:00 am - 5:00 pm": open at the inclusive bound.
C3_Witness ==
  /\ Called
  /\ currentTime = [day |-> 1, hours |-> 17, minutes |-> 0]
  /\ EntryOf(Monday) = Some(Entry(Monday, Range(T9am, T5pm)))
  /\ ~CarryoverApplies
  /\ Status.isOpen = JsTrue

----------------------------------------------------------------------------
(* C4: when yesterday's entry is a range that crosses midnight and the     *)
(* time is at or before its close time, the result is open, with           *)
(* currentPeriod.day yesterday's name, isOvernightPeriod true, closesAt    *)
(* yesterday's close time and the message                                  *)
(* "Open until {closesAt} ({yesterday}'s overnight hours)".                *)
C4_AsStated ==
  (/\ Called
   /\ EntryOf(Yesterday) # Undefined
   /\ IsRange(EntryOf(Yesterday)[1])
   /\ Overnight(RangeOf(EntryOf(Yesterday)[1]))
   /\ Now <= RefMinutes(RangeOf(EntryOf(Yesterday)[1]).to))
  => LET closesAt == RefText(RangeOf(EntryOf(Yesterday)[1]).to)
     IN  /\ Status.isOpen = JsTrue
         /\ Status.currentPeriod # Undefined
         /\ Status.currentPeriod[1].day = Yesterday
         /\ Status.currentPeriod[1].isOvernightPeriod = TRUE
         /\ Status.currentPeriod[1].closesAt = Some(closesAt)
         /\ Status.message =
              <<"O","p","e","n"," ","u","n","t","i","l"," ">> \o closesAt \o <<" ","(">>
              \o Yesterday
              \o <<"'","s"," ","o","v","e","r","n","i","g","h","t"," ","h","o","u","r","s",")">>

----------------------------------------------------------------------------
(* C5: when today's entry is a range that crosses midnight and the time is *)
(* at or after its open time, the result is open, the message is           *)
(* "Open until {closesAt} tomorrow (overnight hours)" and                  *)
(* currentPeriod.day is today's name.                                      *)
C5_AsStated ==
  (/\ Called
   /\ EntryOf(Today) # Undefined
   /\ IsRange(EntryOf(Today)[1])
   /\ Overnight(RangeOf(EntryOf(Today)[1]))
   /\ Now >= RefMinutes(RangeOf(EntryOf(Today)[1]).from))
  => /\ Status.isOpen = JsTrue
     /\ Status.currentPeriod # Undefined
     /\ Status.currentPeriod[1].day = Today
     /\ Status.message =
          <<"O","p","e","n"," ","u","n","t","i","l"," ">>
          \o RefText(RangeOf(EntryOf(Today)[1]).to)
          \o <<" ","t","o","m","o","r","r","o","w"," ","(","o","v","e","r","n","i","g","h","t",
               " ","h","o","u","r","s",")">>

----------------------------------------------------------------------------
(* The fallback status for the flag of the call.                           *)
ExpectedFallback ==
  [isOpen |-> IF googleOpenNow = JsTrue THEN JsTrue ELSE JsFalse,
   currentPeriod |-> Undefined,
   message |-> IF googleOpenNow = JsTrue
               THEN <<"C","u","r","r","e","n","t","l","y"," ","o","p","e","n">>
               ELSE <<"C","u","r","r","e","n","t","l","y"," ","c","l","o","s","e","d">>]

(* C6: with "Friday: 5:00 pm - 2:00 am" as Friday's entry, on a Saturday   *)
(* after 2:00 am the carryover check does not return open: the status is   *)
(* the one of Saturday's own entry when the schedule has one, and the      *)
(* fallback status otherwise.                                              *)
C6_PastOvernightWindow ==
  (/\ Called
   /\ currentTime.day = 6
   /\ EntryOf(Friday) = Some(Friday5pm2am)
   /\ Now > 120)
  => /\ Status.currentPeriod # Undefined => Status.currentPeriod[1].day = Saturday
     /\ EntryOf(Saturday) = Undefined => Status = ExpectedFallback
     /\ EntryOf(Saturday) = Some(SaturdayClosed)
          => /\ Status.isOpen = JsFalse
             /\ Status.message = <<"C","l","o","s","e","d"," ","t","o","d","a","y"," ","(">>
                                 \o Saturday \o <<")">>
     /\ (/\ EntryOf(Saturday) # Undefined
         /\ IsRange(EntryOf(Saturday)[1])
         /\ ~Overnight(RangeOf(EntryOf(Saturday)[1])))
          => SameDayVerdict(RangeOf(EntryOf(Saturday)[1]))

\* Saturday 03:00, Friday open until 2:00 am, no entry for Saturday, flag
\* true: the call returned the fallback.
C6_Witness ==
  /\ Called
  /\ currentTime = [day |-> 6, hours |-> 3, minutes |-> 0]
  /\ openingHours = Some(<<Friday5pm2am>>)
  /\ googleOpenNow = JsTrue
  /\ Status = ExpectedFallback

----------------------------------------------------------------------------
TodayIsUnparsable ==
  /\ EntryOf(Today) # Undefined
  /\ ~IsClosedEntry(EntryOf(Today)[1])
  /\ ~IsRange(EntryOf(Today)[1])

(* C7, as stated: when today's entry is not marked closed and its range    *)
(* cannot be parsed, isOpen is never true, whatever the fallback flag.     *)
C7_AsStated == (Called /\ TodayIsUnparsable) => Status.isOpen # JsTrue

(* C7, amended: in that case, when the carryover check does not return,    *)
(* isOpen is true only if the fallback flag is true: it is false for the   *)
(* flag false and for the flag absent.                                     *)
C7_UnparsableFollowsFlag ==
  (Called /\ TodayIsUnparsable /\ ~CarryoverApplies)
  => /\ Status.isOpen \in {JsTrue, JsFalse}
     /\ Status.isOpen = JsTrue <=> googleOpenNow = JsTrue

\* Monday, "Monday: Sometimes open", no flag: the call returned closed.
C7_Witness ==
  /\ Called
  /\ currentTime.day = 1
  /\ openingHours = Some(<<MondaySometimesOpen>>)
  /\ googleOpenNow = Undefined
  /\ Status.isOpen = JsFalse

----------------------------------------------------------------------------
----------------------------------------------------------------------------
OtherFlag == IF googleOpenNow = JsTrue THEN JsFalse ELSE JsTrue
ResultForOtherFlag == getRealTimeStatus(openingHours, OtherFlag, currentTime)

(* C9, as stated: for a non-empty schedule with at least one entry that is *)
(* a time range or "Closed", the result is the same for the fallback flag  *)
(* true and false, at every time.                                          *)
C9_AsStated ==
  (/\ Called
   /\ googleOpenNow # Undefined
   /\ \E i \in 1..Len(Schedule) : IsRange(Schedule[i]) \/ IsClosedEntry(Schedule[i]))
  => Status = ResultForOtherFlag

(* C9, amended: the result is the same for the flag true and false when    *)
(* the carryover check returns or today's entry is a time range or         *)
(* "Closed"; entries of other days do not make the flag irrelevant.        *)
C9_FlagUnusedWhenDayParses ==
  (/\ Called
   /\ googleOpenNow # Undefined
   /\ \/ CarryoverApplies
      \/ /\ EntryOf(Today) # Undefined
         /\ IsRange(EntryOf(Today)[1]) \/ IsClosedEntry(EntryOf(Today)[1]))
  => Status = ResultForOtherFlag

\* Monday 10:00 with "Monday: 9:00 am - 5:00 pm" and the flag false: open.
C9_Witness ==
  /\ Called
  /\ currentTime = [day |-> 1, hours |-> 10, minutes |-> 0]
  /\ openingHours = Some(<<Entry(Monday, Range(T9am, T5pm))>>)
  /\ googleOpenNow = JsFalse
  /\ Status.isOpen = JsTrue

----------------------------------------------------------------------------
(* C10: on every return path, isOpen is a boolean and message is a         *)
(* non-empty string.                                                       *)
C10_OutputShape ==
  Called => /\ Status.isOpen \in {JsTrue, JsFalse}
            /\ Len(Status.message) > 0

\* The fallback path with the flag absent has returned.
C10_Witness ==
  /\ Called
  /\ googleOpenNow = Undefined
  /\ Schedule # <<>>
  /\ NoPeriod(Status)
  /\ Status.isOpen = JsFalse

----------------------------------------------------------------------------
\* a time in 12-hour form: one or two digits, ":", two digits, " ", AM or PM
IsTwelveHourText(t) ==
  LET n == Len(t)
      digit == {"0","1","2","3","4","5","6","7","8","9"}
  IN  /\ n \in {7, 8}
      /\ \A i \in 1..(n - 6) : t[i] \in digit
      /\ t[n - 5] = ":"
      /\ t[n - 4] \in digit /\ t[n - 3] \in digit
      /\ t[n - 2] = " "
      /\ t[n - 1] \in {"A", "P"} /\ t[n] = "M"

\* currentPeriod is there, isOvernightPeriod is set and, when the status is
\* open, closesAt is a time in 12-hour form
PeriodPopulated ==
  /\ Status.currentPeriod # Undefined
  /\ Status.currentPeriod[1].isOvernightPeriod \in BOOLEAN
  /\ Status.isOpen = JsTrue
       => /\ Status.currentPeriod[1].closesAt # Undefined
          /\ IsTwelveHourText(Status.currentPeriod[1].closesAt[1])

(* C11, as stated: whenever an entry of the schedule names today (or the   *)
(* carryover check returned), currentPeriod is populated, with             *)
(* isOvernightPeriod set and, if isOpen is true, closesAt in 12-hour form, *)
(* also when the time range of the entry cannot be parsed.                 *)
C11_AsStated ==
  (Called /\ (EntryOf(Today) # Undefined \/ CarryoverApplies)) => PeriodPopulated

(* C11, amended: currentPeriod is populated in that way when the carryover *)
(* check returned or today's entry is "Closed" or a time range; when the   *)
(* carryover check did not return and today's entry cannot be parsed, the  *)
(* status has no currentPeriod.                                            *)
C11_PeriodWhenDayParses ==
  /\ (/\ Called
      /\ \/ CarryoverApplies
         \/ /\ EntryOf(Today) # Undefined
            /\ IsRange(EntryOf(Today)[1]) \/ IsClosedEntry(EntryOf(Today)[1]))
     => PeriodPopulated
  /\ (Called /\ ~CarryoverApplies /\ TodayIsUnparsable) => NoPeriod(Status)

\* Monday 10:00 with "Monday: 9:00 am - 5:00 pm": open, closesAt "5:00 PM".
C11_Witness ==
  /\ Called
  /\ currentTime = [day |-> 1, hours |-> 10, minutes |-> 0]
  /\ EntryOf(Monday) = Some(Entry(Monday, Range(T9am, T5pm)))
  /\ ~CarryoverApplies
  /\ Status.currentPeriod # Undefined
  /\ Status.currentPeriod[1].closesAt = Some(<<"5",":","0","0"," ","P","M">>)

----------------------------------------------------------------------------
\* a status object: isOpen a boolean, message a non-empty string,
\* currentPeriod absent or a period
IsStatusObject(s) ==
  /\ DOMAIN s = {"isOpen", "currentPeriod", "message"}
  /\ s.isOpen \in {<<TRUE>>, <<FALSE>>}
  /\ Len(s.message) > 0
  /\ Len(s.currentPeriod) <= 1
  /\ Len(s.currentPeriod) = 1
       => DOMAIN s.currentPeriod[1] = {"day", "hours", "isOvernightPeriod", "closesAt"}

(* C12: getRealTimeStatus never throws: for every array of strings (empty, *)
(* no entry for the day, entry without ": ", time text that cannot be      *)
(* parsed or is out of range), every time and every fallback flag, no call *)
(* ends with a TypeError and every call that ends has returned a status    *)
(* object.                                                                 *)
C12_AlwaysReturns ==
  /\ ~thrown
  /\ result # <<>> => IsStatusObject(result[1])

\* Monday 01:30 with "Sunday: 5 pm-2 am", a range without minutes: the
\* carryover check returned, closesAt is built from the default minutes.
C12_Witness ==
  /\ Called
  /\ ~thrown
  /\ currentTime = [day |-> 1, hours |-> 1, minutes |-> 30]
  /\ openingHours = Some(<<SundayNoMinutes, MondayOutOfRange>>)
  /\ Status.currentPeriod # Undefined
  /\ Status.currentPeriod[1].closesAt = Some(<<"2",":","0","0"," ","A","M">>)

----------------------------------------------------------------------------
(* C13: two calls of getRealTimeStatus with the same schedule, the same    *)
(* fallback flag and the same explicit time return the same status object, *)
(* whatever the clock of the server shows at each call, and no step        *)
(* changes the schedule array.                                             *)
C13_Deterministic ==
  /\ [](again # <<>> => again = result)
  /\ [][openingHours' = openingHours]_vars

\* The second call was made after the clock of the server had moved, for a
\* schedule whose verdict depends on the time.
C13_Witness ==
  /\ again # <<>>
  /\ wallClock = [day |-> 6, hours |-> 1, minutes |-> 30]
  /\ currentTime = [day |-> 1, hours |-> 10, minutes |-> 0]
  /\ openingHours = Some(<<Entry(Monday, Range(T9am, T5pm))>>)
  /\ again[1].isOpen = <<TRUE>>

----------------------------------------------------------------------------
(* The POST handler's response.                                            *)

Responded == rankedRestaurants # Undefined

\* the elements of the response's restaurants
ResponseElements == {rankedRestaurants[1][k] : k \in 1..Len(rankedRestaurants[1])}

\* C14, as stated: every element of the response's restaurants is a
\* restaurant whose isOpen is true and whose realTimeStatus.isOpen is true,
\* whatever the ranking call came to.  (Violated: a recommendation whose
\* restaurantIndex is 0.5 passes the range test and puts an element with no
\* restaurant field at all into the response.)
C14_AsStated ==
  Responded =>
    \A element \in ResponseElements :
      /\ element.restaurant # Undefined
      /\ element.restaurant[1].isOpen = JsTrue
      /\ element.restaurant[1].realTimeStatus.isOpen = JsTrue

\* place i is among the restaurants of the response
Returned(i) ==
  \E element \in ResponseElements :
    element.restaurant # Undefined /\ element.restaurant[1].id = i

\* the time place i was evaluated at: its local time, or the server's when
\* the place has no location or the timezone lookup failed
EvaluatedAt(i) == restaurantPromises[i].restaurantLocalTime[1]

\* the verdict for a place of PlaceKinds on a Monday, from its hours alone
ExpectedOpen(place, time) ==
  IF place.weekdayDescriptions = DayHours THEN time.hours >= 9 /\ time.hours < 17
  ELSE IF place.weekdayDescriptions = NightHours THEN time.hours >= 9 \/ time.hours < 2
  ELSE IF place.weekdayDescriptions = NoDayOff THEN FALSE
  ELSE place.openNow = JsTrue

\* what becomes of place i, from place i alone
ExpectedReturned(i) ==
  /\ places[i].weekdayDescriptions # Undefined
  /\ places[i].businessStatus # "CLOSED_TEMPORARILY"
  /\ places[i].photoName # Undefined
  /\ ExpectedOpen(places[i], EvaluatedAt(i))
  /\ places[i].distance # Undefined => places[i].distance[1] <= radiusInKm

\* C15: a failure while one place is processed does not abort the batch.
\* Whatever happens to the other places (a failed timezone lookup, a failed
\* recommendation call, a thrown error, missing hours), each place is in the
\* response exactly when it has hours, is not temporarily closed, did not
\* throw, is open at the time it was evaluated at and is within the radius.
C15_BatchSurvives == Responded => \A i \in 1..Len(places) : Returned(i) <=> ExpectedReturned(i)

\* a response after one place threw and another one's timezone lookup
\* failed: the first is dropped, the second is evaluated at the server's
\* time and returned
C15_Witness ==
  /\ Responded
  /\ Len(places) = 2
  /\ places[1].photoName = Undefined
  /\ places[2].location # Undefined /\ EvaluatedAt(2) = ServerTime
  /\ ~Returned(1) /\ Returned(2)

----------------------------------------------------------------------------
\* the status the carryover check returns for yesterday's range
CarryoverStatus(r) ==
  /\ Status.isOpen = JsTrue
  /\ Status.currentPeriod # Undefined
  /\ Status.currentPeriod[1].day = Yesterday
  /\ Status.currentPeriod[1].isOvernightPeriod = TRUE
  /\ Status.currentPeriod[1].closesAt = Some(RefText(r.to))
  /\ Status.message =
       <<"O","p","e","n"," ","u","n","t","i","l"," ">> \o RefText(r.to) \o <<" ","(">>
       \o Yesterday
       \o <<"'","s"," ","o","v","e","r","n","i","g","h","t"," ","h","o","u","r","s",")">>

(* C16: the carryover check runs before today's entry is consulted.        *)
(* Whenever yesterday's entry is a range closing in the morning at or      *)
(* after the current time, the result is the carryover status, open until  *)
(* yesterday's close time, whatever today's entry is: a range, "Closed",   *)
(* unparsable or missing.                                                  *)
C16_CarryoverFirst ==
  (Called /\ CarryoverApplies) => CarryoverStatus(RangeOf(EntryOf(Yesterday)[1]))

\* Monday 01:30, Sunday open until 2:00 am and "Monday: Closed": the call
\* returned the carryover status and not "Closed today (Monday)".
C16_Witness ==
  /\ Called
  /\ currentTime = [day |-> 1, hours |-> 1, minutes |-> 30]
  /\ EntryOf(Sunday) = Some(Entry(Sunday, Range(T5pm, T2am)))
  /\ EntryOf(Monday) = Some(MondayClosed)
  /\ Status.isOpen = JsTrue
  /\ Status.currentPeriod[1].day = Sunday

----------------------------------------------------------------------------
TodayIsOvernightRange ==
  /\ EntryOf(Today) # Undefined
  /\ IsRange(EntryOf(Today)[1])
  /\ Overnight(RangeOf(EntryOf(Today)[1]))

\* the verdict and the messages for today's range r that crosses midnight
OvernightVerdict(r) ==
  /\ Status.isOpen = JsTrue <=> (Now >= RefMinutes(r.from) \/ Now <= RefMinutes(r.to))
  /\ Status.isOpen \in {JsTrue, JsFalse}
  /\ (Status.isOpen = JsTrue /\ Now < RefMinutes(r.from)) =>
       Status.message =
         <<"O","p","e","n"," ","u","n","t","i","l"," ">> \o RefText(r.to) \o <<" ","(">>
         \o Today
         \o <<"'","s"," ","o","v","e","r","n","i","g","h","t"," ","h","o","u","r","s",")">>
  /\ Status.isOpen = JsFalse =>
       /\ Status.message =
            <<"C","l","o","s","e","d"," ","-"," ","O","p","e","n","s"," ","a","t"," ">>
            \o RefText(r.from)
       /\ Status.currentPeriod # Undefined
       /\ Status.currentPeriod[1].isOvernightPeriod = TRUE
       /\ Status.currentPeriod[1].closesAt = Undefined

(* C17: when today's entry is a range whose close time is before its open  *)
(* time and the carryover check on yesterday's entry does not return,      *)
(* isOpen is true exactly when current >= open or current <= close; open   *)
(* before the open time, the message is                                    *)
(* "Open until {closesAt} ({today}'s overnight hours)"; closed, the        *)
(* message is "Closed - Opens at {opensAt}", isOvernightPeriod is true and *)
(* there is no closesAt.                                                   *)
C17_OvernightToday ==
  (Called /\ TodayIsOvernightRange /\ ~CarryoverApplies)
  => OvernightVerdict(RangeOf(EntryOf(Today)[1]))

\* Monday 01:30 with "Monday: 9:00 am - 2:00 am" and no entry for Sunday:
\* open in the tail of Monday's own range.
C17_Witness ==
  /\ Called
  /\ currentTime = [day |-> 1, hours |-> 1, minutes |-> 30]
  /\ EntryOf(Monday) = Some(Entry(Monday, Range(T9am, T2am)))
  /\ EntryOf(Sunday) = Undefined
  /\ Status.isOpen = JsTrue
  /\ Status.currentPeriod[1].day = Monday

----------------------------------------------------------------------------
(* The times the call has parsed.                                          *)

Converted == locals # Undefined
Locals == locals[1]
TodayParsed == Converted /\ Locals.today # Undefined /\ Locals.today[1].minutes # Undefined
YesterdayParsed == Converted /\ Locals.closeTimeInMinutes # Undefined
ParsedOpen == Locals.today[1].minutes[1].openTimeInMinutes
ParsedClose == Locals.today[1].minutes[1].closeTimeInMinutes
ParsedYesterdayClose == Locals.closeTimeInMinutes[1]

\* C18, as stated: for every entry the time-range pattern matches, the
\* parsed open and close values are minutes of a day, from 0 to 1439.
\* (Violated: the pattern takes any one or two digits for the hour and any
\* two for the minutes, and nothing checks the numbers.)
C18_AsStated ==
  /\ TodayParsed => ParsedOpen \in 0..1439 /\ ParsedClose \in 0..1439
  /\ YesterdayParsed => ParsedYesterdayClose \in 0..1439

----------------------------------------------------------------------------
\* minutes since midnight of a time of the 12-hour clock
ClockMinutes(hour, min, period) ==
  (IF hour = 12 THEN 0 ELSE 60 * hour)
  + (IF min = Undefined THEN 0 ELSE min[1])
  + (IF period = <<"p","m">> THEN 720 ELSE 0)

\* Monday's entry, on a Monday, is today's; on a Tuesday, yesterday's
OpenIs(t)  == openingHours = Some(<<Entry(Monday, Range(t, T5pm))>>)
CloseIs(t) == openingHours \in {Some(<<Entry(Monday, Range(T9am, t))>>),
                                Some(<<Entry(Monday, toUpperCase(Range(T9am, t)))>>)}

(* C19: for every hour 1..12, every minute 0..59 and the minutes left out, *)
(* 12:MM am is MM, H:MM am is 60*H+MM, 12:MM pm is 720+MM and H:MM pm is   *)
(* 720+60*H+MM, for the open time and the close time of today's entry and  *)
(* for the close time of yesterday's entry in the carryover check.         *)
C19_TwelveHourClock ==
  Converted =>
    \A hour \in 1..12, min \in {Undefined} \cup {Some(n) : n \in 0..59},
       period \in {<<"a","m">>, <<"p","m">>} :
      LET t == TimeText(hour, min, period)
          minutes == ClockMinutes(hour, min, period)
      IN  /\ (currentTime.day = 1 /\ OpenIs(t)) => TodayParsed /\ ParsedOpen = minutes
          /\ (currentTime.day = 1 /\ CloseIs(t)) => TodayParsed /\ ParsedClose = minutes
          /\ (currentTime.day = 2 /\ CloseIs(t)) =>
               YesterdayParsed /\ ParsedYesterdayClose = minutes

\* a Tuesday with "Monday: 9:00 am - 12:30 PM" in upper case: the carryover
\* check has parsed the close time as 750, noon and a half
C19_Witness ==
  /\ Converted
  /\ currentTime.day = 2
  /\ openingHours = Some(<<Entry(Monday, toUpperCase(Range(T9am, TimeText(12, Some(30), <<"p","m">>))))>>)
  /\ YesterdayParsed
  /\ ParsedYesterdayClose = 750

----------------------------------------------------------------------------
\* the names of the days in lower case, by getDay(): 0 is Sunday
WeekDayNames ==
  << <<"s","u","n","d","a","y">>, <<"m","o","n","d","a","y">>,
     <<"t","u","e","s","d","a","y">>, <<"w","e","d","n","e","s","d","a","y">>,
     <<"t","h","u","r","s","d","a","y">>, <<"f","r","i","d","a","y">>,
     <<"s","a","t","u","r","d","a","y">> >>

\* getDay() of the calendar day before
DayBefore(day) == IF day = 0 THEN 6 ELSE day - 1

\* the schedule is the one entry of the day whose getDay() is given
OnlyEntryOf(day) == openingHours = Some(<<Entry(WeekDays[day + 1], Range(T9am, T5pm))>>)

(* C20: for every weekday 0..6 (0 is Sunday), the name today's entry is    *)
(* looked up under is that weekday's name, and the name the carryover      *)
(* check looks under is the name of the calendar day before it (Saturday   *)
(* for Sunday, Sunday for Monday); so a schedule's only entry is found as  *)
(* today's exactly on its own day and as yesterday's exactly on the next.  *)
C20_DayNames ==
  Converted =>
    /\ Locals.yesterdayName = WeekDayNames[DayBefore(currentTime.day) + 1]
    /\ Locals.today # Undefined =>
         Locals.today[1].todayName = WeekDayNames[currentTime.day + 1]
    /\ \A day \in 0..6 :
         OnlyEntryOf(day) =>
           /\ Locals.yesterdayHours # Undefined <=> day = DayBefore(currentTime.day)
           /\ Locals.today # Undefined
           /\ Locals.today[1].todayHours # Undefined <=> day = currentTime.day

\* a Sunday with Saturday's entry alone: found by the carryover check under
\* "saturday", not found as today's under "sunday"
C20_Witness ==
  /\ Converted
  /\ currentTime.day = 0
  /\ OnlyEntryOf(6)
  /\ Locals.yesterdayName = <<"s","a","t","u","r","d","a","y">>
  /\ Locals.yesterdayHours # Undefined
  /\ Locals.today[1].todayName = <<"s","u","n","d","a","y">>
  /\ Locals.today[1].todayHours = Undefined

----------------------------------------------------------------------------
(* Schedules with several entries for one day.                             *)

\* the day an entry of the pool is for
DayOf(e) == CHOOSE day \in {WeekDays[k] : k \in 1..7} : SubSeq(e, 1, Len(day)) = day

\* the schedule without the entries whose day an earlier entry names
RECURSIVE WithoutLaterDuplicates(_, _)
WithoutLaterDuplicates(s, seen) ==
  IF s = <<>> THEN <<>>
  ELSE IF DayOf(Head(s)) \in seen THEN WithoutLaterDuplicates(Tail(s), seen)
  ELSE <<Head(s)>> \o WithoutLaterDuplicates(Tail(s), seen \cup {DayOf(Head(s))})

HasDuplicateDay == \E i, j \in 1..Len(Schedule) : i < j /\ DayOf(Schedule[i]) = DayOf(Schedule[j])

(* C21: first match wins.  When several entries name the same day, the     *)
(* result is the one of the schedule from which every entry but the first  *)
(* of each day is removed, at every time and for every flag: the later     *)
(* duplicates affect neither today's look-up nor the carryover look-up.    *)
C21_FirstMatchWins ==
  (Called /\ HasDuplicateDay)
  => Status = getRealTimeStatus(Some(WithoutLaterDuplicates(Schedule, {})), googleOpenNow, currentTime)

\* Monday 10:00 with "Monday: 9:00 am - 5:00 pm" followed by "Monday: Closed":
\* open, from the first entry
C21_Witness ==
  /\ Called
  /\ currentTime = [day |-> 1, hours |-> 10, minutes |-> 0]
  /\ Schedule = <<Entry(Monday, Range(T9am, T5pm)), MondayClosed>>
  /\ Status.isOpen = JsTrue

----------------------------------------------------------------------------
(* Schedules in another order, and without the entries of other days.      *)

NoDuplicateDay == Schedule # <<>> /\ ~HasDuplicateDay

\* the positions of the entries of today and of yesterday
Consulted == {i \in 1..Len(Schedule) : DayOf(Schedule[i]) \in {Today, Yesterday}}

\* the entries at the positions kept, in every order
Rearranged(kept) ==
  {[k \in 1..Cardinality(kept) |-> Schedule[f[k]]] :
     f \in {g \in [1..Cardinality(kept) -> kept] :
              \A a, b \in 1..Cardinality(kept) : g[a] = g[b] => a = b}}

\* every permutation of the schedule, and of the schedule without some
\* entries of days other than today and yesterday
Variants ==
  UNION {Rearranged(kept) : kept \in {K \in SUBSET (1..Len(Schedule)) : Consulted \subseteq K}}

SameAsCalled(s) == getRealTimeStatus(Some(s), googleOpenNow, currentTime) = Status

\* C22, as stated: when no day is named twice, every permutation of the
\* entries and the removal of entries of days other than today and
\* yesterday give the same result at every time.  (Violated: removing the
\* only entries leaves an empty schedule, whose result is "Hours not
\* available" and not the fallback status.)
C22_AsStated == (Called /\ NoDuplicateDay) => \A s \in Variants : SameAsCalled(s)

(* C22, amended: the same, as long as one entry at least remains.          *)
C22_OrderIndependent ==
  (Called /\ NoDuplicateDay) => \A s \in Variants : s # <<>> => SameAsCalled(s)

\* Monday 01:30 with Monday's entry before Sunday's, which closes at
\* 2:00 am: the carryover status, as with Sunday's entry first
C22_Witness ==
  /\ Called
  /\ currentTime = [day |-> 1, hours |-> 1, minutes |-> 30]
  /\ Schedule = <<Entry(Monday, Range(T9am, T5pm)), Entry(Sunday, Range(T5pm, T2am))>>
  /\ Status.isOpen = JsTrue
  /\ Status.currentPeriod[1].day = Sunday

----------------------------------------------------------------------------
\* the status was returned by the carryover check: open, for yesterday
OpenFromYesterday ==
  /\ Status.isOpen = JsTrue
  /\ Status.currentPeriod # Undefined
  /\ Status.currentPeriod[1].day = Yesterday

\* C23, as stated: the carryover check reports the venue open only when
\* yesterday's range crosses midnight, its close time before its open time;
\* a range of yesterday that ends in the morning of yesterday never makes
\* the venue open today.  (Violated: the check looks at the close time
\* alone and takes "9:00 am - 11:00 am" for a range that ends this morning.)
C23_AsStated ==
  (Called /\ OpenFromYesterday)
  => /\ EntryOf(Yesterday) # Undefined
     /\ IsRange(EntryOf(Yesterday)[1])
     /\ Overnight(RangeOf(EntryOf(Yesterday)[1]))

----------------------------------------------------------------------------
\* both functions were called on the schedule, at the time
BothCalled == Called /\ customOpenCheck # Undefined

(* C24: the two implementations agree.  For every schedule and time,       *)
(* isRestaurantOpen(schedule, t) is getRealTimeStatus(schedule, flag,      *)
(* t).isOpen when the flag is false or absent; when they differ, the flag  *)
(* is true and the status is the fallback status "Currently open".         *)
C24_SameVerdict ==
  BothCalled =>
    /\ googleOpenNow # JsTrue => (customOpenCheck[1] <=> Status.isOpen = JsTrue)
    /\ (customOpenCheck[1] <=> Status.isOpen = JsTrue) \/ Status = ExpectedFallback

\* Monday 01:30 with Sunday open until 2:00 am and the flag absent: both
\* functions answer open, from the carryover check
C24_Witness ==
  /\ BothCalled
  /\ currentTime = [day |-> 1, hours |-> 1, minutes |-> 30]
  /\ Schedule = <<Entry(Sunday, Range(T5pm, T2am))>>
  /\ googleOpenNow = Undefined
  /\ customOpenCheck = Some(TRUE)
  /\ Status.isOpen = JsTrue

----------------------------------------------------------------------------
\* getDay() of the day an entry of the pool is for
DayIndexOf(r) == CHOOSE day \in 0..6 : WeekDays[day + 1] = r.day

\* the current minute is in the hours of range r, which crosses midnight:
\* from its open time to 23:59 of its day, or from 00:00 to its close time
\* (inclusive) of the day after
WithinOvernight(r) ==
  \/ currentTime.day = DayIndexOf(r) /\ Now >= RefMinutes(r.from)
  \/ currentTime.day = (DayIndexOf(r) + 1) % 7 /\ Now <= RefMinutes(r.to)

\* C25, as stated: continuity across midnight.  With the clock advancing
\* minute by minute, for an entry of day D whose close time is before its
\* open time, isOpen is true at every minute from D's open time through
\* 23:59 and from 00:00 through the close time of day D+1, whatever the
\* entry of D+1 is.  (Violated: for "Friday: 6:00 pm - 1:00 pm" the
\* carryover check does not return on Saturday, its close time being 'pm'.)
C25_AsStated ==
  Called =>
    \A i \in 1..Len(Schedule) :
      (IsRange(Schedule[i]) /\ Overnight(RangeOf(Schedule[i])) /\ WithinOvernight(RangeOf(Schedule[i])))
      => Status.isOpen = JsTrue

----------------------------------------------------------------------------
(* C26: only the first range of an entry counts.  With                     *)
(* "Monday: 11:00 am - 2:00 pm, 5:00 pm - 10:00 pm" on a Monday, isOpen is *)
(* true exactly from 11:00 to 14:00, closesAt is "2:00 PM" and the message *)
(* "Open until 2:00 PM"; before 11:00 the message is "Closed - Opens at    *)
(* 11:00 AM" and after 14:00, the second range included,                   *)
(* "Closed - Opens 11:00 AM tomorrow".                                     *)
C26_FirstRangeOnly ==
  (Called /\ Schedule = <<MondayTwoRanges>> /\ currentTime.day = 1)
  => /\ Status.isOpen = (IF 660 <= Now /\ Now <= 840 THEN JsTrue ELSE JsFalse)
     /\ Status.currentPeriod # Undefined
     /\ Status.currentPeriod[1].closesAt =
          (IF 660 <= Now /\ Now <= 840 THEN Some(<<"2",":","0","0"," ","P","M">>) ELSE Undefined)
     /\ Status.message =
          (IF Now < 660
           THEN <<"C","l","o","s","e","d"," ","-"," ","O","p","e","n","s"," ","a","t"," ",
                  "1","1",":","0","0"," ","A","M">>
           ELSE IF Now <= 840
           THEN <<"O","p","e","n"," ","u","n","t","i","l"," ","2",":","0","0"," ","P","M">>
           ELSE <<"C","l","o","s","e","d"," ","-"," ","O","p","e","n","s"," ",
                  "1","1",":","0","0"," ","A","M"," ","t","o","m","o","r","r","o","w">>)

\* Monday 18:00, inside the second range: reported closed
C26_Witness ==
  /\ Called
  /\ Schedule = <<MondayTwoRanges>>
  /\ currentTime = [day |-> 1, hours |-> 18, minutes |-> 0]
  /\ Status.isOpen = JsFalse

----------------------------------------------------------------------------
StartsWith(text, prefix) == Len(text) >= Len(prefix) /\ SubSeq(text, 1, Len(prefix)) = prefix

SaysOpen ==
  \/ StartsWith(Status.message, <<"O","p","e","n"," ","u","n","t","i","l">>)
  \/ Status.message = <<"C","u","r","r","e","n","t","l","y"," ","o","p","e","n">>

SaysClosed ==
  \/ StartsWith(Status.message, <<"C","l","o","s","e","d">>)
  \/ Status.message = <<"C","u","r","r","e","n","t","l","y"," ","c","l","o","s","e","d">>
  \/ Status.message = <<"H","o","u","r","s"," ","n","o","t"," ","a","v","a","i","l","a","b","l","e">>

(* C27: the message and the verdict agree on every return path.  isOpen is *)
(* true exactly when the message starts with "Open until" or is            *)
(* "Currently open", and false exactly when it starts with "Closed" or is  *)
(* "Currently closed" or "Hours not available".                            *)
C27_MessageSaysVerdict ==
  Called =>
    /\ Status.isOpen \in {JsTrue, JsFalse}
    /\ Status.isOpen = JsTrue <=> SaysOpen
    /\ Status.isOpen = JsFalse <=> SaysClosed

\* Monday 10:00 with "Monday: Closed": closed, and the message says so
C27_Witness ==
  /\ Called
  /\ currentTime = [day |-> 1, hours |-> 10, minutes |-> 0]
  /\ Schedule = <<MondayClosed>>
  /\ Status.isOpen = JsFalse
  /\ SaysClosed /\ ~SaysOpen

----------------------------------------------------------------------------
(* C28: whenever the result has currentPeriod, closesAt is defined exactly *)
(* when isOpen is true, and currentPeriod.day is yesterday's name when the *)
(* carryover check returned and today's name otherwise.                    *)
C28_PeriodFields ==
  (Called /\ Status.currentPeriod # Undefined)
  => /\ Status.currentPeriod[1].closesAt # Undefined <=> Status.isOpen = JsTrue
     /\ Status.currentPeriod[1].day = (IF CarryoverApplies THEN Yesterday ELSE Today)

\* Friday 13:01 with "Friday: 6:00 pm - 1:00 pm": closed inside today's
\* overnight branch, currentPeriod for Friday without closesAt
C28_Witness ==
  /\ Called
  /\ currentTime = [day |-> 5, hours |-> 13, minutes |-> 1]
  /\ Schedule = <<Entry(Friday, Range(T6pm, T1pm))>>
  /\ Status.isOpen = JsFalse
  /\ Status.currentPeriod # Undefined
  /\ Status.currentPeriod[1].day = Friday
  /\ Status.currentPeriod[1].closesAt = Undefined

----------------------------------------------------------------------------
\* the positions in availableRestaurants of the elements of the response
\* that carry no reasoning
OriginalPositions(elements) ==
  [k \in 1..Len(elements) |->
     CHOOSE p \in 1..Len(availableRestaurants[1]) :
       availableRestaurants[1][p] = elements[k].restaurant[1]]

\* C29, as stated: the re-ranking yields a permutation of the open
\* restaurants.  Whatever recommendations the model returns, the response
\* holds each element of availableRestaurants exactly once and nothing
\* else, the recommended ones (those with a reasoning) first and the rest
\* in their original order.  (Violated: a restaurantIndex of 0.5 passes the
\* range test and adds an element spread from undefined.)
C29_AsStated ==
  Responded =>
    LET elements == rankedRestaurants[1]
        plain == SelectSeq(elements, LAMBDA e : e.claudeReasoning = Undefined)
    IN  /\ Len(elements) = Len(availableRestaurants[1])
        /\ \A k \in 1..Len(elements) : elements[k].restaurant # Undefined
        /\ \A p \in 1..Len(availableRestaurants[1]) :
             Cardinality({k \in 1..Len(elements) :
                            elements[k].restaurant = Some(availableRestaurants[1][p])}) = 1
        /\ \A j, k \in 1..Len(elements) :
             (j < k /\ elements[j].claudeReasoning = Undefined)
             => elements[k].claudeReasoning = Undefined
        /\ (Len(plain) < Len(elements)) =>
             \A j, k \in 1..Len(plain) :
               j < k => OriginalPositions(plain)[j] < OriginalPositions(plain)[k]

----------------------------------------------------------------------------
(* C30: a place without weekdayDescriptions, or whose businessStatus is    *)
(* CLOSED_TEMPORARILY, is never in the response, also when Google's        *)
(* openNow flag for it is true and its hours say open.                     *)
C30_SkippedPlaces ==
  Responded =>
    \A i \in 1..Len(places) :
      (places[i].weekdayDescriptions = Undefined \/ places[i].businessStatus = "CLOSED_TEMPORARILY")
      => ~Returned(i)

\* a response to a search that found a temporarily closed place, open by
\* its hours and by the flag, and a place without hours with the flag true:
\* neither is returned
C30_Witness ==
  /\ Responded
  /\ Len(places) = 2
  /\ places[1].businessStatus = "CLOSED_TEMPORARILY" /\ places[1].openNow = JsTrue
  /\ places[2].weekdayDescriptions = Undefined /\ places[2].openNow = JsTrue
  /\ ~Returned(1) /\ ~Returned(2)

====
